---- MODULE Spec2Model ----
(***************************************************************************)
(* Model of computational-self-construction: the MemoryManager             *)
(* (src/core/memory.py) and the run_condition orchestrators                *)
(* (scripts/run_pilot.py, run_scaled_pilot.py, run_cross_architecture.py,  *)
(* run_gemini_modified.py).                                                *)
(***************************************************************************)
EXTENDS Integers, Sequences, FiniteSets, TLC

VARIABLES
    \* ---- a MemoryManager driven by an arbitrary caller (SpecMemory) ----
    mm,          \* the object: [persist, history, query_count]
    mmCalls,     \* caller's log: <<query, response>> of every add_exchange since the last clear()
    mmLastOp,    \* the method called last ("init" after construction)
    mmRet,       \* what the last call returned (<<>> for None)
    mmPreClear,  \* query_count just before the most recent clear(), -1 when never cleared
    \* ---- one call of run_condition (SpecRun) ----
    script,             \* which script's run_condition runs
    condition,          \* argument: the Condition
    prompts,            \* argument: the caller's prompt pool
    n_queries,          \* argument
    configs,            \* configs[condition.name] of src/prompts/condition_configs.json
    pc,                 \* "entry", "framing", "loop", "returned", "raised"
    exc,                \* the exception run_condition raised ("none" while it has not)
    memory,             \* local: the MemoryManager
    shuffled_prompts,   \* local: the shuffled copy of the pool
    results,            \* local: the Result Records
    i,                  \* local: the loop index
    successful_queries, \* local (run_cross_architecture, run_gemini_modified)
    failed_queries,     \* local (run_cross_architecture, run_gemini_modified)
    adapterLog,         \* every model.query call so far, as the adapter saw it
    stdout,             \* the warning and error lines printed
    \* ---- the three Model Adapters (SpecAdapter, SpecMain) ----
    env,                \* the process environment: credential name -> value ("unset" when absent)
    adapters,           \* adapter name -> "none" (not constructed), "ready", "error" (__init__ raised)
    adError,            \* adapter name -> the exception __init__ raised ("" when none)
    adRequest,          \* the last request an adapter's query() handed to its vendor client
    \* ---- main() of run_cross_architecture / run_scaled_pilot (SpecMain) ----
    main_script,        \* which script's main runs
    main_pc,            \* "start", "models", "cells", "save", "done", "raised"
    main_prompts,       \* prompts = load_prompts()
    models,             \* the adapters main initialised, in order
    cell,               \* 0-based position in the (model, condition) loop
    all_results,        \* the records collected so far
    queries_sent,       \* model.query calls made so far
    saved,              \* the result file: [written, records]
    main_out,           \* the ERROR lines main printed
    \* ---- verify_data_format (SpecVerify) ----
    data,               \* the loaded array
    verify_pc,          \* "start", "done"
    reported,           \* indices printed as "Record i missing"
    scanned,            \* how many records the required-field loop looked at
    all_good,           \* local
    balanced,           \* local
    empty_responses,    \* local
    verdict,            \* "none", "format_error", "verified", "warnings", "KeyError"
    \* ---- merge_data_files (SpecMerge) ----
    data1,              \* the first file's array
    data2,              \* the second file's array
    merge_pc,           \* "start", "done", "raised"
    combined,           \* local
    merge_warnings,     \* indices printed as "Record i missing fields"
    issues,             \* the cells listed under WARNINGS
    ok_cells,           \* the cells printed with a check mark
    output_file,        \* the output file: [written, records]
    \* ---- PilotAnalyzer / CrossArchitectureAnalyzer (SpecAnalyze) ----
    an_script,          \* "analyze_pilot" or "analyze_cross_architecture"
    an_data,            \* the loaded records
    an_self_data,       \* analyzer.data: the indices of the records it currently holds
    an_seen,            \* record index -> the metrics of its first analysis ("none" before)
    an_last,            \* the latest analyze_response call: [index, metrics]
    an_pc,              \* "loaded", "aggregated", "raised"
    an_summary,         \* the summary of the latest aggregation, or the exception raised
    \* ---- cohens_d (SpecStats) ----
    st_impl,            \* which script's cohens_d
    group1,             \* the first sample
    group2,             \* the second sample
    st_pc,              \* "start", "done"
    d12,                \* cohens_d(group1, group2)
    d21,                \* cohens_d(group2, group1)
    \* ---- main's loop of run_condition calls (SpecCells) ----
    cells_run,          \* run_condition calls that have ended
    previous_memory     \* the MemoryManager the previous call left behind

mmVars == <<mm, mmCalls, mmLastOp, mmRet, mmPreClear>>

runVars == <<script, condition, prompts, n_queries, configs, pc, exc, memory,
             shuffled_prompts, results, i, successful_queries, failed_queries,
             adapterLog, stdout>>

adapterVars == <<env, adapters, adError, adRequest>>

mainVars == <<main_script, main_pc, main_prompts, models, cell, all_results,
              queries_sent, saved, main_out>>

verifyVars == <<data, verify_pc, reported, scanned, all_good, balanced,
                empty_responses, verdict>>

mergeVars == <<data1, data2, merge_pc, combined, merge_warnings, issues, ok_cells,
               output_file>>

analyzeVars == <<an_script, an_data, an_self_data, an_seen, an_last, an_pc, an_summary>>

statsVars == <<st_impl, group1, group2, st_pc, d12, d21>>

cellVars == <<cells_run, previous_memory>>

vars == <<mmVars, runVars, adapterVars, mainVars, verifyVars, mergeVars,
          analyzeVars, statsVars, cellVars>>

\* ------------------------------------------------- components not running

Adapters == {"claude", "gpt", "gemini"}

Keys == {"ANTHROPIC_API_KEY", "OPENAI_API_KEY", "GOOGLE_API_KEY"}

NoRequest == [adapter |-> "none"]

NoFile == [written |-> FALSE, records |-> <<>>]

\* no adapter constructed, nothing in the environment
AdapterIdle ==
    /\ env = [k \in Keys |-> "unset"]
    /\ adapters = [a \in Adapters |-> "none"]
    /\ adError = [a \in Adapters |-> ""]
    /\ adRequest = NoRequest

\* no main() running
MainIdle ==
    /\ main_script = "none"
    /\ main_pc = "idle"
    /\ main_prompts = <<>>
    /\ models = <<>>
    /\ cell = 0
    /\ all_results = <<>>
    /\ queries_sent = 0
    /\ saved = NoFile
    /\ main_out = <<>>

\* no verify_data_format running
VerifyIdle ==
    /\ data = <<>>
    /\ verify_pc = "idle"
    /\ reported = {}
    /\ scanned = 0
    /\ all_good = TRUE
    /\ balanced = TRUE
    /\ empty_responses = 0
    /\ verdict = "none"

\* no analyzer constructed
AnalyzeIdle ==
    /\ an_script = "none"
    /\ an_data = <<>>
    /\ an_self_data = {}
    /\ an_seen = <<>>
    /\ an_last = [index |-> 0]
    /\ an_pc = "idle"
    /\ an_summary = [n |-> 0]

\* no cohens_d call
StatsIdle ==
    /\ st_impl = "none"
    /\ group1 = <<>>
    /\ group2 = <<>>
    /\ st_pc = "idle"
    /\ d12 = [kind |-> "none"]
    /\ d21 = [kind |-> "none"]

\* a single run_condition call, not a loop of them
CellsIdle ==
    /\ cells_run = 0
    /\ previous_memory = [persist |-> FALSE, history |-> <<>>, query_count |-> 0]

\* no merge_data_files running
MergeIdle ==
    /\ data1 = <<>>
    /\ data2 = <<>>
    /\ merge_pc = "idle"
    /\ combined = <<>>
    /\ merge_warnings = {}
    /\ issues = {}
    /\ ok_cells = {}
    /\ output_file = NoFile

\* ------------------------------------------------------------------ bounds

\* add_exchange calls a caller makes between two clear() calls
MaxAdds == 3

\* texts a caller hands to add_exchange
QuerySet == {"q1", "q2"}
ResponseSet == {"r1", "r2"}

\* ------------------------------------------------------- src/core/memory.py

\* MemoryManager.__init__
MemoryManager(persist) ==
    [persist |-> persist, history |-> <<>>, query_count |-> 0]

\* add_exchange without the `if self.persist` test
add_exchange_always_stores(self, query, response) ==
    LET n == self.query_count + 1
    IN  [self EXCEPT !.query_count = n,
                     !.history = Append(@, [query_number |-> n,
                                            query |-> query,
                                            response |-> response])]

\* add_exchange inserting at the front of the history
add_exchange_prepends(self, query, response) ==
    LET n == self.query_count + 1
    IN  IF self.persist
        THEN [self EXCEPT !.query_count = n,
                          !.history = <<[query_number |-> n,
                                         query |-> query,
                                         response |-> response]>> \o @]
        ELSE [self EXCEPT !.query_count = n]

\* add_exchange storing the counter as it was before the increment
add_exchange_numbers_from_zero(self, query, response) ==
    LET n == self.query_count + 1
    IN  IF self.persist
        THEN [self EXCEPT !.query_count = n,
                          !.history = Append(@, [query_number |-> n - 1,
                                                 query |-> query,
                                                 response |-> response])]
        ELSE [self EXCEPT !.query_count = n]

\* MemoryManager.add_exchange: the object after the call
add_exchange(self, query, response) ==
    LET n == self.query_count + 1
    IN  IF self.persist
        THEN [self EXCEPT !.query_count = n,
                          !.history = Append(@, [query_number |-> n,
                                                 query |-> query,
                                                 response |-> response])]
        ELSE [self EXCEPT !.query_count = n]

\* MemoryManager.get_context: the value returned
get_context(self) ==
    IF self.persist THEN self.history ELSE <<>>

\* clear that forgets to reset the counter
clear_keeps_count(self) ==
    [self EXCEPT !.history = <<>>]

\* MemoryManager.clear: the object after the call
clear(self) ==
    [self EXCEPT !.history = <<>>, !.query_count = 0]

\* MemoryManager.get_summary_stats: the value returned
get_summary_stats(self) ==
    [total_queries |-> self.query_count,
     stored_exchanges |-> Len(self.history),
     persistence_enabled |-> self.persist]

\* ---------------------------------------------------- src/core/conditions.py

Condition(name, memory_persistence, temporal_markers, metacognitive_prompting, self_framing) ==
    [name |-> name,
     memory_persistence |-> memory_persistence,
     temporal_markers |-> temporal_markers,
     metacognitive_prompting |-> metacognitive_prompting,
     self_framing |-> self_framing]

BASELINE == Condition("baseline", FALSE, FALSE, FALSE, FALSE)
MEMORY_ONLY == Condition("memory_only", TRUE, FALSE, FALSE, FALSE)
\* a full_basic that leaves memory persistence out
FULL_BASIC_without_memory == Condition("full_basic", FALSE, TRUE, FALSE, TRUE)
FULL_BASIC == Condition("full_basic", TRUE, TRUE, FALSE, TRUE)
FULL_META == Condition("full_meta", TRUE, TRUE, TRUE, TRUE)

STANDARD_CONDITIONS == <<BASELINE, MEMORY_ONLY, FULL_BASIC, FULL_META>>

\* ------------------------------------------------ inputs of one run_condition

Range(s) == {s[k] : k \in DOMAIN s}

\* adapter failures injected into one run
MaxFailures == 2

\* the three run_condition bodies (run_gemini_modified's is run_cross_architecture's)
Scripts == {"run_pilot", "run_scaled_pilot", "run_cross_architecture"}

\* the prompt pool handed to run_condition
PromptPool == <<"p1", "p2", "p3", "p4", "p5">>

\* a run the pool covers, and one that asks for one prompt more
NQueriesChoices == {Len(PromptPool), Len(PromptPool) + 1}

\* the four standard conditions, and every other combination of the four flags
Conditions ==
    Range(STANDARD_CONDITIONS) \cup
    {c \in {Condition("custom", a, b, m, f) : a, b, m, f \in BOOLEAN} :
        \A s \in Range(STANDARD_CONDITIONS) :
            <<c.memory_persistence, c.temporal_markers, c.metacognitive_prompting, c.self_framing>>
            # <<s.memory_persistence, s.temporal_markers, s.metacognitive_prompting, s.self_framing>>}

InitialPrompt == "init"

\* configured metacognitive-prompt lists: none, or two entries
MetacogLists == {<<>>, <<"m1", "m2">>}

\* model.name of the adapter
ModelName == "claude"

\* ------------------------------------------------------------ text helpers

Digit == <<"0", "1", "2", "3", "4", "5", "6", "7", "8", "9">>

\* Python's str() of a non-negative int, as the f-string formats it
RECURSIVE str(_)
str(n) == IF n < 10 THEN Digit[n + 1] ELSE str(n \div 10) \o Digit[(n % 10) + 1]

\* the reply the model gives to its k-th call
Reply(k) == "r" \o str(k)

\* ---------------------------------------------------------- run_condition

\* random.shuffle of prompts.copy(): every ordering of the pool
shuffle(pool) ==
    {[k \in 1..Len(pool) |-> pool[p[k]]] : p \in Permutations(1..Len(pool))}

\* a marker that carries the 0-based index
with_temporal_marker_index(cond, idx, prompt) ==
    IF cond.temporal_markers /\ idx > 0
    THEN "[This is query " \o str(idx) \o "] " \o prompt
    ELSE prompt

\* `if condition.temporal_markers and i > 0: prompt = f"[This is query {i+1}] {prompt}"`
with_temporal_marker(cond, idx, prompt) ==
    IF cond.temporal_markers /\ idx > 0
    THEN "[This is query " \o str(idx + 1) \o "] " \o prompt
    ELSE prompt

\* a loop that reads the head of the list at every index
sampled_prompt_first(scr, pool, shuffled, idx) ==
    IF scr = "run_pilot" THEN pool[1] ELSE shuffled[1]

\* the prompt the loop picks at index idx, before any rewriting
sampled_prompt(scr, pool, shuffled, idx) ==
    IF scr = "run_pilot"
    THEN pool[(idx % Len(pool)) + 1]
    ELSE shuffled[idx + 1]

\* the prompts the loop may send at index idx (a set: random.choice)
assemble_prompt(scr, cond, cfg, idx, prompt) ==
    LET marked == with_temporal_marker(cond, idx, prompt)
    IN  IF /\ scr # "run_pilot"
           /\ cond.metacognitive_prompting
           /\ idx % 5 = 4
           /\ cfg.metacognitive_prompts # <<>>
        THEN Range(cfg.metacognitive_prompts)
        ELSE {marked}

NoContext == [none |-> TRUE, exchanges |-> <<>>]

\* a loop that never hands the history to the adapter
query_context_none(cond, mem) == NoContext

\* `context = memory.get_context() if condition.memory_persistence else None`
query_context(cond, mem) ==
    IF cond.memory_persistence
    THEN [none |-> FALSE, exchanges |-> get_context(mem)]
    ELSE NoContext

\* a framing step that stores the model's reply
framing_exchange_stores_reply(mem, initial_prompt, reply) ==
    add_exchange(mem, initial_prompt, reply)

\* `memory.add_exchange(initial_prompt, "[Acknowledged]")`
framing_exchange(mem, initial_prompt, reply) ==
    add_exchange(mem, initial_prompt, "[Acknowledged]")

\* a record numbered by the 0-based loop index
result_record_zero_based(scr, cond, idx, prompt, response, now) ==
    IF scr = "run_cross_architecture"
    THEN [query_number |-> idx, prompt |-> prompt, response |-> response,
          condition |-> cond.name, model |-> ModelName, timestamp |-> now]
    ELSE [query_number |-> idx, prompt |-> prompt, response |-> response,
          condition |-> cond.name, timestamp |-> now]

\* the Result Record appended for index idx
result_record(scr, cond, idx, prompt, response, now) ==
    IF scr = "run_cross_architecture"
    THEN [query_number |-> idx + 1, prompt |-> prompt, response |-> response,
          condition |-> cond.name, model |-> ModelName, timestamp |-> now]
    ELSE [query_number |-> idx + 1, prompt |-> prompt, response |-> response,
          condition |-> cond.name, timestamp |-> now]

\* whether this script's run_condition wraps model.query in try/except
catches(scr) == scr = "run_cross_architecture"

Failures == Cardinality({k \in DOMAIN adapterLog : ~adapterLog[k].ok})

\* ------------------------------------------- a caller of one MemoryManager

\* no run_condition is in progress
RunIdle ==
    /\ script = "run_cross_architecture"
    /\ condition = BASELINE
    /\ prompts = <<>>
    /\ n_queries = 0
    /\ configs = [initial_prompt |-> InitialPrompt, metacognitive_prompts |-> <<>>]
    /\ pc = "idle"
    /\ exc = "none"
    /\ memory = MemoryManager(FALSE)
    /\ shuffled_prompts = <<>>
    /\ results = <<>>
    /\ i = 0
    /\ successful_queries = 0
    /\ failed_queries = 0
    /\ adapterLog = <<>>
    /\ stdout = <<>>

InitMemory ==
    /\ RunIdle
    /\ AdapterIdle /\ MainIdle /\ VerifyIdle /\ MergeIdle
    /\ AnalyzeIdle /\ StatsIdle /\ CellsIdle
    /\ mm \in {MemoryManager(p) : p \in BOOLEAN}
    /\ mmCalls = <<>>
    /\ mmLastOp = "init"
    /\ mmRet = <<>>
    /\ mmPreClear = -1

AddExchange ==
    /\ Len(mmCalls) < MaxAdds
    /\ \E q \in QuerySet, r \in ResponseSet :
          /\ mm' = add_exchange(mm, q, r)
          /\ mmCalls' = Append(mmCalls, <<q, r>>)
    /\ mmLastOp' = "add_exchange"
    /\ mmRet' = <<>>
    /\ UNCHANGED mmPreClear

\* a get_context that hands the history out and drops it
GetContextDrains ==
    /\ mmRet' = get_context(mm)
    /\ mm' = [mm EXCEPT !.history = <<>>]
    /\ mmLastOp' = "get_context"
    /\ UNCHANGED <<mmCalls, mmPreClear>>

GetContext ==
    /\ mmRet' = get_context(mm)
    /\ mmLastOp' = "get_context"
    /\ UNCHANGED <<mm, mmCalls, mmPreClear>>

Clear ==
    /\ mm' = clear(mm)
    /\ mmCalls' = <<>>
    /\ mmPreClear' = mm.query_count
    /\ mmLastOp' = "clear"
    /\ mmRet' = <<>>

GetSummaryStats ==
    /\ mmRet' = get_summary_stats(mm)
    /\ mmLastOp' = "get_summary_stats"
    /\ UNCHANGED <<mm, mmCalls, mmPreClear>>

\* no stand-alone MemoryManager beside the one run_condition owns
MemoryIdle ==
    /\ mm = MemoryManager(FALSE)
    /\ mmCalls = <<>>
    /\ mmLastOp = "idle"
    /\ mmRet = <<>>
    /\ mmPreClear = -1

\* run_condition(model, condition, prompts, n_queries) is called; locals unbound
InitRun ==
    /\ MemoryIdle
    /\ AdapterIdle /\ MainIdle /\ VerifyIdle /\ MergeIdle
    /\ AnalyzeIdle /\ StatsIdle /\ CellsIdle
    /\ script \in Scripts
    /\ condition \in Conditions
    /\ prompts = PromptPool
    /\ n_queries \in NQueriesChoices
    /\ configs \in {[initial_prompt |-> InitialPrompt, metacognitive_prompts |-> l] :
                        l \in IF condition.metacognitive_prompting THEN MetacogLists ELSE {<<>>}}
    /\ pc = "entry"
    /\ exc = "none"
    /\ memory = MemoryManager(FALSE)
    /\ shuffled_prompts = <<>>
    /\ results = <<>>
    /\ i = 0
    /\ successful_queries = 0
    /\ failed_queries = 0
    /\ adapterLog = <<>>
    /\ stdout = <<>>

\* a run that goes on with the manager an earlier run left
reused_memory(cond, left) == [left EXCEPT !.persist = cond.memory_persistence]

\* `memory = MemoryManager(persist=condition.memory_persistence)`
fresh_memory(cond, left) == MemoryManager(cond.memory_persistence)

\* random.shuffle applied to the caller's list itself
pool_after_shuffle_in_place(pool, shuffled) == shuffled

\* the caller's list after `shuffled_prompts = prompts.copy(); random.shuffle(shuffled_prompts)`
pool_after_shuffle(pool, shuffled) == pool

\* memory manager, shuffled copy, empty results
RunCondition_Start ==
    /\ pc = "entry"
    /\ memory' = fresh_memory(condition, memory)
    /\ shuffled_prompts' \in IF script = "run_pilot" THEN {<<>>} ELSE shuffle(prompts)
    /\ prompts' = IF script = "run_pilot" THEN prompts
                  ELSE pool_after_shuffle(prompts, shuffled_prompts')
    /\ results' = <<>>
    /\ pc' = IF condition.self_framing THEN "framing" ELSE "loop"
    /\ UNCHANGED <<script, condition, n_queries, configs, exc, i,
                   successful_queries, failed_queries, adapterLog, stdout>>

\* the initial framing query answers
RunCondition_FramingOk ==
    /\ pc = "framing"
    /\ LET reply == Reply(Len(adapterLog) + 1)
       IN  /\ adapterLog' = Append(adapterLog,
                [kind |-> "framing", index |-> -1, prompt |-> configs.initial_prompt,
                 context |-> [none |-> FALSE, exchanges |-> get_context(memory)],
                 ok |-> TRUE, response |-> reply])
           /\ memory' = framing_exchange(memory, configs.initial_prompt, reply)
    /\ pc' = "loop"
    /\ UNCHANGED <<script, condition, prompts, n_queries, configs, exc, shuffled_prompts,
                   results, i, successful_queries, failed_queries, stdout>>

\* the initial framing query raises
RunCondition_FramingFail ==
    /\ pc = "framing"
    /\ Failures < MaxFailures
    /\ adapterLog' = Append(adapterLog,
            [kind |-> "framing", index |-> -1, prompt |-> configs.initial_prompt,
             context |-> [none |-> FALSE, exchanges |-> get_context(memory)],
             ok |-> FALSE, response |-> ""])
    /\ IF catches(script)
       THEN /\ stdout' = Append(stdout, "WARNING: Initial framing failed")
            /\ pc' = "loop"
            /\ exc' = exc
       ELSE /\ stdout' = stdout
            /\ pc' = "raised"
            /\ exc' = "AdapterError"
    /\ UNCHANGED <<script, condition, prompts, n_queries, configs, memory, shuffled_prompts,
                   results, i, successful_queries, failed_queries>>

InRange == script = "run_pilot" \/ i < Len(shuffled_prompts)

\* one loop iteration whose model.query answers
RunCondition_QueryOk ==
    /\ pc = "loop"
    /\ i < n_queries
    /\ InRange
    /\ \E prompt \in assemble_prompt(script, condition, configs, i,
                                     sampled_prompt(script, prompts, shuffled_prompts, i)) :
         LET now == Len(adapterLog) + 1
             response == Reply(now)
         IN  /\ adapterLog' = Append(adapterLog,
                    [kind |-> "numbered", index |-> i, prompt |-> prompt,
                     context |-> query_context(condition, memory),
                     ok |-> TRUE, response |-> response])
             /\ results' = Append(results,
                    result_record(script, condition, i, prompt, response, now))
             /\ memory' = add_exchange(memory, prompt, response)
    /\ successful_queries' = IF catches(script) THEN successful_queries + 1 ELSE successful_queries
    /\ i' = i + 1
    /\ UNCHANGED <<script, condition, prompts, n_queries, configs, pc, exc, shuffled_prompts,
                   failed_queries, stdout>>

\* one loop iteration whose model.query raises
RunCondition_QueryFail ==
    /\ pc = "loop"
    /\ i < n_queries
    /\ InRange
    /\ Failures < MaxFailures
    /\ \E prompt \in assemble_prompt(script, condition, configs, i,
                                     sampled_prompt(script, prompts, shuffled_prompts, i)) :
         adapterLog' = Append(adapterLog,
                [kind |-> "numbered", index |-> i, prompt |-> prompt,
                 context |-> query_context(condition, memory),
                 ok |-> FALSE, response |-> ""])
    /\ IF catches(script)
       THEN /\ stdout' = Append(stdout, "ERROR on query " \o str(i + 1))
            /\ failed_queries' = failed_queries + 1
            /\ i' = i + 1
            /\ pc' = pc
            /\ exc' = exc
       ELSE /\ pc' = "raised"
            /\ exc' = "AdapterError"
            /\ UNCHANGED <<stdout, failed_queries, i>>
    /\ UNCHANGED <<script, condition, prompts, n_queries, configs, memory, shuffled_prompts,
                   results, successful_queries>>

\* `shuffled_prompts[i]` past the end of the pool: IndexError, outside any try
RunCondition_IndexError ==
    /\ pc = "loop"
    /\ i < n_queries
    /\ ~InRange
    /\ pc' = "raised"
    /\ exc' = "IndexError"
    /\ UNCHANGED <<script, condition, prompts, n_queries, configs, memory, shuffled_prompts,
                   results, i, successful_queries, failed_queries, adapterLog, stdout>>

\* the loop is over: `return results`
RunCondition_Return ==
    /\ pc = "loop"
    /\ i = n_queries
    /\ pc' = "returned"
    /\ UNCHANGED <<script, condition, prompts, n_queries, configs, exc, memory,
                   shuffled_prompts, results, i, successful_queries, failed_queries,
                   adapterLog, stdout>>

NextMemory ==
    \/ AddExchange /\ UNCHANGED <<runVars, adapterVars, mainVars, verifyVars, mergeVars, analyzeVars, statsVars, cellVars>>
    \/ GetContext /\ UNCHANGED <<runVars, adapterVars, mainVars, verifyVars, mergeVars, analyzeVars, statsVars, cellVars>>
    \/ Clear /\ UNCHANGED <<runVars, adapterVars, mainVars, verifyVars, mergeVars, analyzeVars, statsVars, cellVars>>
    \/ GetSummaryStats /\ UNCHANGED <<runVars, adapterVars, mainVars, verifyVars, mergeVars, analyzeVars, statsVars, cellVars>>

SpecMemory == InitMemory /\ [][NextMemory]_vars

NextRun ==
    \/ RunCondition_Start /\ UNCHANGED <<mmVars, adapterVars, mainVars, verifyVars, mergeVars, analyzeVars, statsVars, cellVars>>
    \/ RunCondition_FramingOk /\ UNCHANGED <<mmVars, adapterVars, mainVars, verifyVars, mergeVars, analyzeVars, statsVars, cellVars>>
    \/ RunCondition_FramingFail /\ UNCHANGED <<mmVars, adapterVars, mainVars, verifyVars, mergeVars, analyzeVars, statsVars, cellVars>>
    \/ RunCondition_QueryOk /\ UNCHANGED <<mmVars, adapterVars, mainVars, verifyVars, mergeVars, analyzeVars, statsVars, cellVars>>
    \/ RunCondition_QueryFail /\ UNCHANGED <<mmVars, adapterVars, mainVars, verifyVars, mergeVars, analyzeVars, statsVars, cellVars>>
    \/ RunCondition_IndexError /\ UNCHANGED <<mmVars, adapterVars, mainVars, verifyVars, mergeVars, analyzeVars, statsVars, cellVars>>
    \/ RunCondition_Return /\ UNCHANGED <<mmVars, adapterVars, mainVars, verifyVars, mergeVars, analyzeVars, statsVars, cellVars>>

SpecRun == InitRun /\ [][NextRun]_vars

\* ------------------------------------------------------------------ claims

\* C1: with persist=False, after any sequence of calls get_context() returns
\* the empty sequence and the stored history is empty, while query_count
\* equals the number of add_exchange calls since the last clear().
C1_NoPersistEmptyContextCounterCounts ==
    ~mm.persist =>
        /\ get_context(mm) = <<>>
        /\ mm.history = <<>>
        /\ mm.query_count = Len(mmCalls)
        /\ (mmLastOp = "get_context" => mmRet = <<>>)
        /\ (mmLastOp = "get_summary_stats" =>
                mmRet.total_queries = Len(mmCalls) /\ mmRet.stored_exchanges = 0)

C1_Witness ==
    /\ ~mm.persist
    /\ mmLastOp = "get_context"
    /\ Len(mmCalls) = MaxAdds
    /\ mm.query_count = MaxAdds
    /\ mmRet = <<>>

\* C2: with persist=True, get_context() has one element per add_exchange call
\* since the last clear() (or construction), and its k-th element holds the
\* query and the response of the k-th such call.
C2_PersistContextIsCallLog ==
    mm.persist =>
        /\ Len(get_context(mm)) = Len(mmCalls)
        /\ \A k \in 1..Len(mmCalls) :
              /\ get_context(mm)[k].query = mmCalls[k][1]
              /\ get_context(mm)[k].response = mmCalls[k][2]
        /\ (mmLastOp = "get_context" => mmRet = mm.history)

C2_Witness ==
    /\ mm.persist
    /\ mmPreClear > 0
    /\ mmLastOp = "get_context"
    /\ Len(mmRet) = 2
    /\ mmRet[1].query = "q1" /\ mmRet[1].response = "r2"
    /\ mmRet[2].query = "q2" /\ mmRet[2].response = "r1"

\* C3: clear() empties the history and zeroes the counter whatever the state;
\* the cleared manager equals a freshly constructed one with the same persist
\* flag, so the next add_exchange is numbered 1; clear() twice is clear() once.
C3_ClearResetsToFresh ==
    /\ clear(mm) = MemoryManager(mm.persist)
    /\ clear(clear(mm)) = clear(mm)
    /\ (mmLastOp = "clear" => mm = MemoryManager(mm.persist))
    /\ \A q \in QuerySet, r \in ResponseSet :
          LET next == add_exchange(clear(mm), q, r)
          IN  /\ next.query_count = 1
              /\ next = add_exchange(MemoryManager(mm.persist), q, r)
              /\ (mm.persist => next.history =
                    <<[query_number |-> 1, query |-> q, response |-> r]>>)

C3_Witness ==
    /\ mmLastOp = "clear"
    /\ mmPreClear = MaxAdds
    /\ mm.persist
    /\ mm.history = <<>>
    /\ mm.query_count = 0

\* C4: no operation changes the persist flag, and get_context and
\* get_summary_stats leave the history and the counter as they were.
C4_PersistFixedReadersPure ==
    [][/\ mm'.persist = mm.persist
       /\ (mmLastOp' \in {"get_context", "get_summary_stats"} =>
              /\ mm'.history = mm.history
              /\ mm'.query_count = mm.query_count)]_vars

C4_Witness ==
    /\ mmLastOp = "get_context"
    /\ mm.persist
    /\ Len(mm.history) = 2
    /\ mm.query_count = 2
    /\ mmRet = mm.history

\* ------------------------------------------- reading a run's adapter log

Numbered == {k \in DOMAIN adapterLog : adapterLog[k].kind = "numbered"}

FramingCalls == {k \in DOMAIN adapterLog : adapterLog[k].kind = "framing"}

\* <<query, response>> of each exchange of a context, in order
Pairs(exchanges) ==
    [j \in 1..Len(exchanges) |-> <<exchanges[j].query, exchanges[j].response>>]

\* what the calls before the k-th that succeeded put in front of it: the framing
\* prompt with its placeholder, each numbered prompt with its reply
SuccessfulBefore(k) ==
    LET okLog == SelectSeq(SubSeq(adapterLog, 1, k - 1), LAMBDA e : e.ok)
    IN  [j \in 1..Len(okLog) |->
            IF okLog[j].kind = "framing"
            THEN <<okLog[j].prompt, "[Acknowledged]">>
            ELSE <<okLog[j].prompt, okLog[j].response>>]

Replaceable(idx) ==
    /\ condition.metacognitive_prompting
    /\ idx % 5 = 4
    /\ configs.metacognitive_prompts # <<>>

\* C5: when the adapter call of a numbered query i raises, no Result Record is
\* produced for i, the loop goes on with i+1 and the run returns normally with
\* the records of the successful queries: the failure never aborts the run.
C5_FailedQueryNeverAborts ==
    \A k \in Numbered :
        ~adapterLog[k].ok =>
            /\ \A r \in Range(results) : r.query_number # adapterLog[k].index + 1
            /\ ~(pc = "raised" /\ exc = "AdapterError")
            /\ (k = Len(adapterLog) /\ pc = "loop" => i = adapterLog[k].index + 1)
            /\ (pc = "returned" =>
                    Len(results) = Cardinality({j \in Numbered : adapterLog[j].ok}))

\* C6: with memory_persistence the context of numbered query i is, in order,
\* the framing exchange (when one was issued and succeeded) and then the
\* (prompt sent, response received) pairs of the numbered queries before i that
\* succeeded, nothing for failed ones; without memory_persistence every
\* numbered call gets no context.
C6_ContextIsSuccessfulHistory ==
    \A k \in Numbered :
        LET ctx == adapterLog[k].context
        IN  IF condition.memory_persistence
            THEN ~ctx.none /\ Pairs(ctx.exchanges) = SuccessfulBefore(k)
            ELSE ctx.none /\ ctx.exchanges = <<>>

C6_Witness ==
    /\ condition.memory_persistence
    /\ \E k \in Numbered :
          /\ Len(adapterLog[k].context.exchanges) = 2
          /\ adapterLog[k].context.exchanges[1].query = InitialPrompt
          /\ adapterLog[k].context.exchanges[1].response = "[Acknowledged]"
          /\ adapterLog[k].context.exchanges[2].query = adapterLog[2].prompt
          /\ adapterLog[k].context.exchanges[2].response = "r2"
          /\ adapterLog[k].index = 2
          /\ ~adapterLog[k - 1].ok

\* C7: the initial framing query is issued iff condition.self_framing, once and
\* before the first numbered query; it produces no Result Record, and the
\* exchange memory keeps for it carries "[Acknowledged]", not the model's reply.
C7_FramingIffSelfFraming ==
    /\ (pc \in {"entry", "framing"} => adapterLog = <<>>)
    /\ (pc \in {"loop", "returned", "raised"} =>
            Cardinality(FramingCalls) = IF condition.self_framing THEN 1 ELSE 0)
    /\ FramingCalls \subseteq {1}
    /\ Len(results) = Cardinality({k \in Numbered : adapterLog[k].ok})
    /\ \A j \in DOMAIN results :
          \E k \in Numbered :
              /\ adapterLog[k].ok
              /\ results[j].query_number = adapterLog[k].index + 1
              /\ results[j].prompt = adapterLog[k].prompt
              /\ results[j].response = adapterLog[k].response
    /\ (1 \in FramingCalls /\ adapterLog[1].ok /\ memory.persist =>
            /\ memory.history[1].query = configs.initial_prompt
            /\ memory.history[1].response = "[Acknowledged]"
            /\ memory.history[1].response # adapterLog[1].response)

C7_Witness ==
    /\ pc = "returned"
    /\ condition.self_framing
    /\ adapterLog[1].kind = "framing"
    /\ adapterLog[1].ok
    /\ adapterLog[1].response = "r1"
    /\ memory.history[1].response = "[Acknowledged]"
    /\ Len(results) = n_queries

\* C8: when the initial framing query raises, the run does not abort: a warning
\* is logged, no framing exchange enters memory, and all n_queries numbered
\* queries are still attempted.
C8_FramingFailureNonFatal ==
    (1 \in FramingCalls /\ ~adapterLog[1].ok) =>
        /\ ~(pc = "raised" /\ exc = "AdapterError" /\ Len(adapterLog) = 1)
        /\ "WARNING: Initial framing failed" \in Range(stdout)
        /\ \A x \in Range(memory.history) : x.query # configs.initial_prompt
        /\ (pc = "returned" => Cardinality(Numbered) = n_queries)

\* C9: with metacognitive_prompting, i mod 5 = 4 and a non-empty configured
\* list, the prompt sent and recorded for index i is exactly one entry of the
\* list (no pool prompt, no marker); at every other index the sampled pool
\* prompt is kept.
C9_MetacognitiveReplacement ==
    \A k \in Numbered :
        LET e == adapterLog[k]
            sampled == sampled_prompt(script, prompts, shuffled_prompts, e.index)
        IN  IF Replaceable(e.index)
            THEN /\ e.prompt \in Range(configs.metacognitive_prompts)
                 /\ \A r \in Range(results) :
                        r.query_number = e.index + 1 =>
                            r.prompt \in Range(configs.metacognitive_prompts)
            ELSE e.prompt \in {sampled, "[This is query " \o str(e.index + 1) \o "] " \o sampled}

\* C10: with temporal_markers and i > 0, a prompt that was not replaced by a
\* metacognitive prompt is "[This is query <i+1>] " followed by the sampled
\* pool prompt, so the marker's number is the record's query_number; without
\* temporal_markers, or at i = 0, the sampled prompt is sent as it is.
C10_TemporalMarkerIsQueryNumber ==
    /\ \A k \in Numbered :
          LET e == adapterLog[k]
              sampled == sampled_prompt(script, prompts, shuffled_prompts, e.index)
          IN  e.prompt \notin Range(configs.metacognitive_prompts) =>
                  IF condition.temporal_markers /\ e.index > 0
                  THEN e.prompt = "[This is query " \o str(e.index + 1) \o "] " \o sampled
                  ELSE e.prompt = sampled
    /\ \A r \in Range(results) :
          (/\ condition.temporal_markers
           /\ r.query_number > 1
           /\ r.prompt \notin Range(configs.metacognitive_prompts)) =>
              r.prompt = "[This is query " \o str(r.query_number) \o "] "
                            \o sampled_prompt(script, prompts, shuffled_prompts, r.query_number - 1)

C10_Witness ==
    /\ condition.temporal_markers
    /\ script = "run_cross_architecture"
    /\ Len(results) >= 2
    /\ results[1].query_number = 1
    /\ results[1].prompt = "p4"
    /\ results[2].query_number = 3
    /\ results[2].prompt = "[This is query 3] p2"
    /\ shuffled_prompts[3] = "p2"

\* C11: with all four flags false, an adapter that never fails and n_queries
\* within the pool, the run returns exactly n_queries Result Records, each
\* prompt an unmodified pool entry, the prompts taken from pairwise distinct
\* positions of the pool, and no initial framing query is issued.
C11_BaselineRunUsesDistinctPoolPrompts ==
    (/\ ~condition.memory_persistence /\ ~condition.temporal_markers
     /\ ~condition.metacognitive_prompting /\ ~condition.self_framing
     /\ Failures = 0
     /\ n_queries <= Len(prompts)) =>
        /\ pc # "raised"
        /\ FramingCalls = {}
        /\ \A j \in DOMAIN results : \E k \in DOMAIN prompts : results[j].prompt = prompts[k]
        /\ \A j, k \in DOMAIN results : j # k => results[j].prompt # results[k].prompt
        /\ \A k \in Numbered : adapterLog[k].prompt \in Range(prompts)
        /\ (pc = "returned" => Len(results) = n_queries)

C11_Witness ==
    /\ pc = "returned"
    /\ condition = BASELINE
    /\ script = "run_cross_architecture"
    /\ n_queries = Len(prompts)
    /\ Len(results) = n_queries
    /\ Failures = 0
    /\ results[1].prompt = "p3"
    /\ results[n_queries].prompt = "p1"

QueryNumbers == [j \in DOMAIN results |-> results[j].query_number]

\* C12: at the end of a run the Result Records are one per successful numbered
\* query, successes plus failures make n_queries, the record of a successful
\* index i carries query_number i+1, the records are in strictly increasing
\* query_number order, and a record once appended is never changed or removed.
C12_RecordsAreTheSuccessesInOrder ==
    /\ [](/\ Len(results) = Cardinality({k \in Numbered : adapterLog[k].ok})
          /\ \A k \in Numbered :
                Cardinality({j \in DOMAIN results :
                                results[j].query_number = adapterLog[k].index + 1})
                    = IF adapterLog[k].ok THEN 1 ELSE 0
          /\ \A j, k \in DOMAIN results :
                j < k => results[j].query_number < results[k].query_number
          /\ (pc = "returned" =>
                /\ Cardinality({k \in Numbered : adapterLog[k].ok})
                     + Cardinality({k \in Numbered : ~adapterLog[k].ok}) = n_queries
                /\ (catches(script) =>
                        /\ successful_queries = Len(results)
                        /\ successful_queries + failed_queries = n_queries)))
    /\ [][/\ Len(results') >= Len(results)
           /\ SubSeq(results', 1, Len(results)) = results]_vars

C12_Witness ==
    /\ pc = "returned"
    /\ failed_queries = 2
    /\ successful_queries = n_queries - 2
    /\ Len(results) = n_queries - 2
    /\ QueryNumbers = <<1, 3, 5>>

AllFields == {"query_number", "prompt", "response", "condition", "model", "timestamp"}

\* C13: every Result Record of a run has the six fields query_number, prompt,
\* response, condition, model and timestamp; query_number is a positive
\* 1-based integer, condition is the run's condition name and model is the
\* adapter's declared name.
C13_RecordsHaveAllSixFields ==
    \A j \in DOMAIN results :
        /\ DOMAIN results[j] = AllFields
        /\ results[j].query_number >= 1
        /\ results[j].condition = condition.name
        /\ results[j].model = ModelName

\* ======================================================= the Model Adapters

MaxContext == 2

MaxTokensChoices == {200, 1000}

AdapterPrompts == {"p1", "p2"}

\* what os.getenv can find for a credential: nothing, an empty string, a key
EnvValues == {"unset", "", "sk-1"}

\* the environment variable each __init__ reads
KeyOf(a) ==
    CASE a = "claude" -> "ANTHROPIC_API_KEY"
      [] a = "gpt"    -> "OPENAI_API_KEY"
      [] a = "gemini" -> "GOOGLE_API_KEY"

\* a constructor that never looks at the credential
adapter_init_unchecked(a, e) == [status |-> "ready", error |-> ""]

\* ClaudeModel / GPTModel / GeminiModel __init__: `if not api_key: raise ValueError`
adapter_init(a, e) ==
    LET api_key == e[KeyOf(a)]
    IN  IF api_key = "unset" \/ api_key = ""
        THEN [status |-> "error",
              error |-> "ValueError: " \o KeyOf(a) \o " not found in environment"]
        ELSE [status |-> "ready", error |-> ""]

\* `if context:` is false for None and for the empty list
truthy(context) == ~context.none /\ context.exchanges # <<>>

RECURSIVE replay_messages_user_only(_, _)
\* a replay that leaves the model's replies out
replay_messages_user_only(exchanges, reply_role) ==
    IF exchanges = <<>> THEN <<>>
    ELSE <<[role |-> "user", content |-> Head(exchanges).query]>>
            \o replay_messages_user_only(Tail(exchanges), reply_role)

RECURSIVE replay_messages(_, _)
\* the `for exchange in context` loop of ClaudeModel.query and GPTModel.query
replay_messages(exchanges, reply_role) ==
    IF exchanges = <<>> THEN <<>>
    ELSE <<[role |-> "user", content |-> Head(exchanges).query],
           [role |-> reply_role, content |-> Head(exchanges).response]>>
            \o replay_messages(Tail(exchanges), reply_role)

RECURSIVE replay_history(_)
\* the `for exchange in context` loop of GeminiModel.query
replay_history(exchanges) ==
    IF exchanges = <<>> THEN <<>>
    ELSE <<[role |-> "user", parts |-> <<Head(exchanges).query>>],
           [role |-> "model", parts |-> <<Head(exchanges).response>>]>>
            \o replay_history(Tail(exchanges))

\* query(): the call each adapter makes on its vendor client
adapter_request(a, prompt, context, max_tokens) ==
    CASE a = "claude" ->
            [call |-> "messages.create",
             messages |-> (IF truthy(context)
                           THEN replay_messages(context.exchanges, "assistant")
                           ELSE <<>>) \o <<[role |-> "user", content |-> prompt]>>,
             max_tokens |-> max_tokens]
      [] a = "gpt" ->
            [call |-> "chat.completions.create",
             messages |-> (IF truthy(context)
                           THEN replay_messages(context.exchanges, "assistant")
                           ELSE <<>>) \o <<[role |-> "user", content |-> prompt]>>,
             max_tokens |-> max_tokens]
      [] a = "gemini" ->
            IF truthy(context)
            THEN [call |-> "start_chat.send_message",
                  history |-> replay_history(context.exchanges),
                  message |-> prompt]
            ELSE [call |-> "generate_content", contents |-> prompt]

RECURSIVE MemoriesOfLen(_)
\* the persistent memories after k add_exchange calls
MemoriesOfLen(k) ==
    IF k = 0 THEN {MemoryManager(TRUE)}
    ELSE {add_exchange(m, q, r) : m \in MemoriesOfLen(k - 1), q \in QuerySet, r \in ResponseSet}

\* what a caller can pass as context: None, or a history (possibly empty)
Contexts ==
    {NoContext} \cup
    UNION {{[none |-> FALSE, exchanges |-> get_context(m)] : m \in MemoriesOfLen(k)} :
           k \in 0..MaxContext}

InitAdapter ==
    /\ MemoryIdle /\ RunIdle /\ MainIdle /\ VerifyIdle /\ MergeIdle
    /\ AnalyzeIdle /\ StatsIdle /\ CellsIdle
    /\ env \in [Keys -> EnvValues]
    /\ adapters = [a \in Adapters |-> "none"]
    /\ adError = [a \in Adapters |-> ""]
    /\ adRequest = NoRequest

\* a = XModel()
AdapterConstruct(a) ==
    /\ adapters[a] = "none"
    /\ LET r == adapter_init(a, env)
       IN  /\ adapters' = [adapters EXCEPT ![a] = r.status]
           /\ adError' = [adError EXCEPT ![a] = r.error]
    /\ UNCHANGED <<env, adRequest>>

\* a.query(prompt, context, max_tokens) on a constructed adapter
AdapterQuery(a, prompt, context, max_tokens) ==
    /\ adapters[a] = "ready"
    /\ adRequest' = [adapter |-> a, prompt |-> prompt, context |-> context,
                     request |-> adapter_request(a, prompt, context, max_tokens)]
    /\ UNCHANGED <<env, adapters, adError>>

NextAdapter ==
    \/ \E a \in Adapters : AdapterConstruct(a)
          /\ UNCHANGED <<mmVars, runVars, mainVars, verifyVars, mergeVars, analyzeVars, statsVars, cellVars>>
    \/ \E a \in Adapters, prompt \in AdapterPrompts, context \in Contexts,
          max_tokens \in MaxTokensChoices :
          AdapterQuery(a, prompt, context, max_tokens)
          /\ UNCHANGED <<mmVars, runVars, mainVars, verifyVars, mergeVars, analyzeVars, statsVars, cellVars>>

SpecAdapter == InitAdapter /\ [][NextAdapter]_vars

\* the conversation a request puts before the remote model, turn by turn
Conversation(req) ==
    CASE req.call \in {"messages.create", "chat.completions.create"} -> req.messages
      [] req.call = "start_chat.send_message" ->
            [j \in DOMAIN req.history |->
                [role |-> req.history[j].role, content |-> req.history[j].parts[1]]]
            \o <<[role |-> "user", content |-> req.message]>>
      [] req.call = "generate_content" ->
            <<[role |-> "user", content |-> req.contents]>>

\* the role under which each vendor replays the model's earlier replies
ReplyRole(a) == IF a = "gemini" THEN "model" ELSE "assistant"

\* C14: a query made with a context of k exchanges reaches the vendor as 2k
\* alternating turns, oldest exchange first (the exchange's query as a user
\* turn, its response as an assistant/model turn), followed by the current
\* prompt as the final user turn; with no context or an empty one the vendor
\* receives only the prompt.
C14_ContextReplayedAsAlternatingTurns ==
    adRequest # NoRequest =>
        LET ex == IF adRequest.context.none THEN <<>> ELSE adRequest.context.exchanges
            k == Len(ex)
            turns == Conversation(adRequest.request)
        IN  /\ Len(turns) = 2 * k + 1
            /\ \A j \in 1..k :
                /\ turns[2 * j - 1] = [role |-> "user", content |-> ex[j].query]
                /\ turns[2 * j] = [role |-> ReplyRole(adRequest.adapter),
                                   content |-> ex[j].response]
            /\ turns[2 * k + 1] = [role |-> "user", content |-> adRequest.prompt]

C14_Witness ==
    /\ adRequest # NoRequest
    /\ adRequest.adapter = "gemini"
    /\ ~adRequest.context.none
    /\ Len(adRequest.context.exchanges) = 2
    /\ adRequest.context.exchanges[1].query = "q1"
    /\ adRequest.context.exchanges[2].query = "q2"
    /\ Len(Conversation(adRequest.request)) = 5

\* C15: an adapter whose credential is absent from the environment fails at
\* construction with an error naming the missing variable, so only adapters
\* whose credential is present are ever constructed and no request is ever
\* issued through an adapter lacking its credential.
C15_MissingCredentialFailsAtConstruction ==
    /\ \A a \in Adapters :
        /\ (adapters[a] # "none" /\ env[KeyOf(a)] = "unset") =>
                /\ adapters[a] = "error"
                /\ adError[a] = "ValueError: " \o KeyOf(a) \o " not found in environment"
        /\ adapters[a] = "ready" => (env[KeyOf(a)] # "unset" /\ adError[a] = "")
    /\ adRequest # NoRequest =>
        /\ env[KeyOf(adRequest.adapter)] # "unset"
        /\ adapters[adRequest.adapter] = "ready"

C15_Witness ==
    /\ env["ANTHROPIC_API_KEY"] = "unset"
    /\ adapters["claude"] = "error"
    /\ adError["claude"] = "ValueError: ANTHROPIC_API_KEY not found in environment"
    /\ adapters["gpt"] = "ready"
    /\ adRequest # NoRequest
    /\ adRequest.adapter = "gpt"

\* ==================================== main() of the two experiment scripts

\* `if len(prompts) < 20`
MinPrompts == 20

\* `n_queries=20`
QueriesPerCell == 20

MainScripts == {"run_cross_architecture", "run_scaled_pilot"}

\* the pool sizes load_prompts may return
PoolSizes == {0, MinPrompts - 1, MinPrompts, MinPrompts + 1}

PoolOfLen(n) == [k \in 1..n |-> "p" \o str(k)]

\* the credentials present or absent when main starts
MainEnvValues == {"unset", "sk-1"}

\* a guard that only rejects the empty pool
pool_too_small_only_empty(pool) == Len(pool) = 0

\* `if len(prompts) < 20`
pool_too_small(pool) == Len(pool) < MinPrompts

pool_error(scr) ==
    IF scr = "run_cross_architecture"
    THEN "ERROR: Need at least 20 prompts for pilot"
    ELSE "ERROR: Need at least 20 prompts for scaled pilot"

\* the adapters main tries to construct, in order
wanted_models(scr) ==
    IF scr = "run_cross_architecture" THEN <<"claude", "gpt", "gemini">> ELSE <<"claude">>

\* the conditions main loops over, in order
main_conditions(scr) ==
    IF scr = "run_cross_architecture" THEN <<BASELINE, FULL_META>> ELSE STANDARD_CONDITIONS

\* the k-th (model, condition) cell of the loop, k = 0, 1, ...
cell_at(scr, ms, k) ==
    LET nc == Len(main_conditions(scr))
    IN  [model |-> ms[(k \div nc) + 1], condition |-> main_conditions(scr)[(k % nc) + 1]]

n_cells(scr, ms) == Len(ms) * Len(main_conditions(scr))

\* a loop with no handler around the run_condition call
main_catches_nothing(scr) == FALSE

\* `try: condition_results = run_condition(...) ... except Exception as e:
\* ... continue` around the call of each cell (run_scaled_pilot calls it bare)
main_catches(scr) == scr = "run_cross_architecture"

\* which queries of a cell the remote model may fail
FailSets == {{}, {1}, {QueriesPerCell}}

\* how a run_condition call for one cell can end: it returns (with the
\* queries in `failed` skipped, where the script catches them), or it raises
\* after `sent` adapter calls
CellOutcomes(scr, cond, pool) ==
    IF Len(pool) < QueriesPerCell
    THEN {[raised |-> TRUE, failed |-> {},
           sent |-> Len(pool) + (IF cond.self_framing THEN 1 ELSE 0)]}
    ELSE {[raised |-> FALSE, failed |-> f,
           sent |-> QueriesPerCell + (IF cond.self_framing THEN 1 ELSE 0)] :
             f \in (IF catches(scr) THEN FailSets ELSE {{}})}
         \cup (IF cond.self_framing
               THEN {[raised |-> TRUE, failed |-> {}, sent |-> 0]}
               ELSE {})
         \cup (IF catches(scr) THEN {}
               ELSE {[raised |-> TRUE, failed |-> {}, sent |-> k] : k \in {1, QueriesPerCell}})

\* the records a returning run_condition hands back for one cell; the order
\* the shuffle drew is not distinguished here
cell_records(scr, a, cond, pool, failed, now) ==
    LET qs == SelectSeq([k \in 1..QueriesPerCell |-> k], LAMBDA k : k \notin failed)
        rec(k) == result_record(scr, cond, k - 1, pool[k], Reply(k), now + k)
    IN  [j \in DOMAIN qs |->
            IF scr = "run_cross_architecture"
            THEN [rec(qs[j]) EXCEPT !.model = a]
            ELSE rec(qs[j])]

InitMain ==
    /\ MemoryIdle /\ RunIdle /\ VerifyIdle /\ MergeIdle
    /\ AnalyzeIdle /\ StatsIdle /\ CellsIdle
    /\ env \in [Keys -> MainEnvValues]
    /\ adapters = [a \in Adapters |-> "none"]
    /\ adError = [a \in Adapters |-> ""]
    /\ adRequest = NoRequest
    /\ main_script \in MainScripts
    /\ main_pc = "start"
    /\ main_prompts \in {PoolOfLen(n) : n \in PoolSizes}
    /\ models = <<>>
    /\ cell = 0
    /\ all_results = <<>>
    /\ queries_sent = 0
    /\ saved = NoFile
    /\ main_out = <<>>

\* prompts = load_prompts(); the length test
Main_CheckPool ==
    /\ main_pc = "start"
    /\ IF pool_too_small(main_prompts)
       THEN /\ main_out' = Append(main_out, pool_error(main_script))
            /\ main_pc' = "done"
       ELSE /\ main_pc' = "models"
            /\ UNCHANGED main_out
    /\ UNCHANGED <<main_script, main_prompts, models, cell, all_results, queries_sent,
                   saved, adapterVars>>

\* the adapters are constructed: each in its own try (cross-architecture), or
\* ClaudeModel() alone and unguarded (scaled pilot)
Main_InitModels ==
    /\ main_pc = "models"
    /\ LET built == [a \in Adapters |->
                        IF \E j \in DOMAIN wanted_models(main_script) :
                               wanted_models(main_script)[j] = a
                        THEN adapter_init(a, env)
                        ELSE [status |-> "none", error |-> ""]]
           ready == SelectSeq(wanted_models(main_script),
                              LAMBDA a : built[a].status = "ready")
       IN  /\ adapters' = [a \in Adapters |-> built[a].status]
           /\ adError' = [a \in Adapters |-> built[a].error]
           /\ models' = ready
           /\ IF catches(main_script)
              THEN IF Len(ready) = 0
                   THEN /\ main_out' = Append(main_out,
                                "ERROR: No models initialized. Check API keys in .env")
                        /\ main_pc' = "done"
                   ELSE /\ main_pc' = "cells"
                        /\ UNCHANGED main_out
              ELSE /\ main_pc' = IF Len(ready) = 0 THEN "raised" ELSE "cells"
                   /\ UNCHANGED main_out
    /\ UNCHANGED <<main_script, main_prompts, cell, all_results, queries_sent, saved,
                   env, adRequest>>

\* one pass of the loop body: run_condition for the next cell
Main_RunCell(outcome) ==
    /\ main_pc = "cells"
    /\ cell < n_cells(main_script, models)
    /\ LET c == cell_at(main_script, models, cell)
       IN  /\ outcome \in CellOutcomes(main_script, c.condition, main_prompts)
           /\ queries_sent' = queries_sent + outcome.sent
           /\ IF outcome.raised
              THEN /\ UNCHANGED all_results
                   /\ IF main_catches(main_script)
                      THEN /\ cell' = cell + 1
                           /\ UNCHANGED main_pc
                      ELSE /\ main_pc' = "raised"
                           /\ UNCHANGED cell
              ELSE /\ all_results' = all_results \o
                          cell_records(main_script, c.model, c.condition, main_prompts,
                                       outcome.failed, queries_sent)
                   /\ cell' = cell + 1
                   /\ UNCHANGED main_pc
    /\ UNCHANGED <<main_script, main_prompts, models, saved, main_out, adapterVars>>

\* after the loop: save_results
Main_Save ==
    /\ main_pc = "cells"
    /\ cell = n_cells(main_script, models)
    /\ IF catches(main_script) /\ all_results = <<>>
       THEN /\ main_out' = Append(main_out, "No results collected. Check error messages above.")
            /\ UNCHANGED saved
       ELSE /\ saved' = [written |-> TRUE, records |-> all_results]
            /\ UNCHANGED main_out
    /\ main_pc' = "done"
    /\ UNCHANGED <<main_script, main_prompts, models, cell, all_results, queries_sent,
                   adapterVars>>

AllOutcomes ==
    UNION {CellOutcomes(scr, cond, PoolOfLen(n)) :
             scr \in MainScripts, cond \in Range(STANDARD_CONDITIONS), n \in PoolSizes}

NextMain ==
    \/ Main_CheckPool /\ UNCHANGED <<mmVars, runVars, verifyVars, mergeVars, analyzeVars, statsVars, cellVars>>
    \/ Main_InitModels /\ UNCHANGED <<mmVars, runVars, verifyVars, mergeVars, analyzeVars, statsVars, cellVars>>
    \/ \E outcome \in AllOutcomes : Main_RunCell(outcome)
          /\ UNCHANGED <<mmVars, runVars, verifyVars, mergeVars, analyzeVars, statsVars, cellVars>>
    \/ Main_Save /\ UNCHANGED <<mmVars, runVars, verifyVars, mergeVars, analyzeVars, statsVars, cellVars>>

SpecMain == InitMain /\ [][NextMain]_vars

\* C16: when the loaded pool has fewer entries than the per-condition query
\* count, main ends with the error line naming the need for 20 prompts, having
\* constructed no adapter, sent no query and written no result file.
C16_SmallPoolAbortsBeforeAnyQuery ==
    (Len(main_prompts) < QueriesPerCell /\ main_pc # "start") =>
        /\ main_pc = "done"
        /\ main_out = <<pool_error(main_script)>>
        /\ queries_sent = 0
        /\ \A a \in Adapters : adapters[a] = "none"
        /\ models = <<>>
        /\ all_results = <<>>
        /\ ~saved.written

C16_Witness ==
    /\ main_pc = "done"
    /\ main_script = "run_scaled_pilot"
    /\ Len(main_prompts) = QueriesPerCell - 1
    /\ \A k \in Keys : env[k] = "sk-1"
    /\ main_out = <<"ERROR: Need at least 20 prompts for scaled pilot">>
    /\ ~saved.written

\* ================================================== verify_data_format

MaxEdge == 1

\* `data[:5]`
FirstChecked == 5

\* `expected_n = 20`
expected_n == 20

required_fields == AllFields

Min(a, b) == IF a < b THEN a ELSE b

\* the records a file may hold: complete ones of two cells, and defective ones
RecordKinds == {"good", "other", "no_prompt", "no_model", "no_response", "empty", "blank"}

Without(r, f) == [g \in DOMAIN r \ {f} |-> r[g]]

\* a record of the given kind whose query_number is n
record_of(kind, n) ==
    LET good == [query_number |-> n, prompt |-> "p" \o str(n), response |-> "r" \o str(n),
                 condition |-> "baseline", model |-> "claude", timestamp |-> n]
    IN  CASE kind = "good"        -> good
          [] kind = "other"       -> [good EXCEPT !.model = "gemini", !.condition = "full_meta"]
          [] kind = "no_prompt"   -> Without(good, "prompt")
          [] kind = "no_model"    -> Without(good, "model")
          [] kind = "no_response" -> Without(good, "response")
          [] kind = "empty"       -> [good EXCEPT !.response = ""]
          [] kind = "blank"       -> [good EXCEPT !.response = "  "]

KindSeqs(n) == UNION {[1..k -> RecordKinds] : k \in 0..n}

\* how many complete records of one cell sit between the edges of a file
BodySizes == {0, expected_n - 1, expected_n}

\* a file: a few records of any kind, a run of complete records, a few more
file_of(head, body, tail) ==
    LET kinds == head \o [k \in 1..body |-> "good"] \o tail
    IN  [k \in DOMAIN kinds |-> record_of(kinds[k], k)]

DataFiles ==
    {file_of(h, b, t) : h \in KindSeqs(MaxEdge), b \in BodySizes, t \in KindSeqs(MaxEdge)}

\* `missing = [f for f in required_fields if f not in record]`
missing(record) == required_fields \ DOMAIN record

\* str.strip on the response texts of the files above
strip(text) == IF text \in {"", " ", "  "} THEN "" ELSE text

\* `not record.get('response') or len(record['response'].strip()) == 0`
is_empty_response(record) ==
    IF "response" \notin DOMAIN record THEN TRUE
    ELSE record.response = "" \/ Len(strip(record.response)) = 0

\* the keys of by_model_condition
cells_of(records) == {<<records[j].model, records[j].condition>> : j \in DOMAIN records}

\* by_model_condition[key]
cell_count(records, key) ==
    Cardinality({j \in DOMAIN records : <<records[j].model, records[j].condition>> = key})

\* r['model'], r['condition'] can be read in every record
keyed(records) ==
    \A j \in DOMAIN records : {"model", "condition"} \subseteq DOMAIN records[j]

InitVerify ==
    /\ MemoryIdle /\ RunIdle /\ AdapterIdle /\ MainIdle /\ MergeIdle
    /\ AnalyzeIdle /\ StatsIdle /\ CellsIdle
    /\ data \in DataFiles
    /\ verify_pc = "start"
    /\ reported = {}
    /\ scanned = 0
    /\ all_good = TRUE
    /\ balanced = TRUE
    /\ empty_responses = 0
    /\ verdict = "none"

\* "Checking required fields...": the loop over data[:5] and the early return
Verify_CheckFields ==
    /\ verify_pc = "start"
    /\ LET n == Min(FirstChecked, Len(data))
           bad == {j \in 1..n : missing(data[j]) # {}}
       IN  /\ reported' = {j - 1 : j \in bad}
           /\ scanned' = n
           /\ all_good' = (bad = {})
           /\ IF bad # {}
              THEN /\ verdict' = "format_error"
                   /\ verify_pc' = "done"
              ELSE /\ verify_pc' = "sizes"
                   /\ UNCHANGED verdict
    /\ UNCHANGED <<data, balanced, empty_responses>>

\* "Checking sample sizes...": by_model_condition and the balance warning
Verify_SampleSizes ==
    /\ verify_pc = "sizes"
    /\ IF keyed(data)
       THEN /\ balanced' = \A key \in cells_of(data) : cell_count(data, key) = expected_n
            /\ verify_pc' = "responses"
            /\ UNCHANGED verdict
       ELSE /\ verdict' = "KeyError"
            /\ verify_pc' = "raised"
            /\ UNCHANGED balanced
    /\ UNCHANGED <<data, reported, scanned, all_good, empty_responses>>

\* "Checking response text..." and the final verdict
Verify_Responses ==
    /\ verify_pc = "responses"
    /\ LET n == Cardinality({j \in DOMAIN data : is_empty_response(data[j])})
       IN  /\ empty_responses' = n
           /\ verdict' = IF all_good /\ n = 0 THEN "verified" ELSE "warnings"
    /\ verify_pc' = "done"
    /\ UNCHANGED <<data, reported, scanned, all_good, balanced>>

NextVerify ==
    \/ Verify_CheckFields /\ UNCHANGED <<mmVars, runVars, adapterVars, mainVars, mergeVars, analyzeVars, statsVars, cellVars>>
    \/ Verify_SampleSizes /\ UNCHANGED <<mmVars, runVars, adapterVars, mainVars, mergeVars, analyzeVars, statsVars, cellVars>>
    \/ Verify_Responses /\ UNCHANGED <<mmVars, runVars, adapterVars, mainVars, mergeVars, analyzeVars, statsVars, cellVars>>

SpecVerify == InitVerify /\ [][NextVerify]_vars

\* C17: when the verification ends, the required-field check has looked at
\* every record of the file, the indices reported are exactly those of the
\* records that miss a field, and the utility ended with a verdict rather
\* than part-way through the file.
C17_VerifyScansEveryRecord ==
    verify_pc \in {"done", "raised"} =>
        /\ scanned = Len(data)
        /\ reported = {j - 1 : j \in {k \in DOMAIN data : missing(data[k]) # {}}}
        /\ verdict \in {"verified", "warnings", "format_error"}

\* C18: an unbalanced cell is a warning only, and the final verdict is
\* 'verified' exactly when no record of the file misses a required field and
\* no record has an empty response.
C18_VerdictIffNoMissingNoEmpty ==
    verify_pc \in {"done", "raised"} =>
        (verdict = "verified" <=>
            \A j \in DOMAIN data : missing(data[j]) = {} /\ ~is_empty_response(data[j]))

\* ==================================================== merge_data_files

MaxBlocks == 2

\* `expected = 20`
expected == 20

\* how many records of one cell a file holds in one run
BlockSizes == {expected \div 2, expected}

\* a run of n records of one cell, or one record that has no 'model'
Blocks ==
    [model : {"claude", "gemini"}, condition : {"baseline", "full_meta"}, n : BlockSizes]
    \cup {[model |-> "none", condition |-> "baseline", n |-> 1]}

\* the records of one block; tag tells the two files' records apart
block_records(b, tag) ==
    [k \in 1..b.n |->
        IF b.model = "none"
        THEN [query_number |-> k, prompt |-> tag \o str(k), response |-> "r" \o str(k),
              condition |-> b.condition, timestamp |-> k]
        ELSE [query_number |-> k, prompt |-> tag \o str(k), response |-> "r" \o str(k),
              condition |-> b.condition, model |-> b.model, timestamp |-> k]]

RECURSIVE blocks_records(_, _)
blocks_records(bs, tag) ==
    IF bs = <<>> THEN <<>>
    ELSE block_records(Head(bs), tag) \o blocks_records(Tail(bs), tag)

\* the first file: up to MaxBlocks blocks
FirstFiles == {blocks_records(bs, "a") : bs \in UNION {[1..k -> Blocks] : k \in 0..MaxBlocks}}

\* the second file: empty or one block
SecondFiles == {<<>>} \cup {blocks_records(<<b>>, "b") : b \in Blocks}

\* a merge that puts the second file first
combine_reversed(d1, d2) == d2 \o d1

\* `combined = data1 + data2`
combine(d1, d2) == d1 \o d2

\* a size check that only flags cells that are short
deviates_if_short(count) == count < expected

\* `if count != expected`
deviates(count) == count # expected

InitMerge ==
    /\ MemoryIdle /\ RunIdle /\ AdapterIdle /\ MainIdle /\ VerifyIdle
    /\ AnalyzeIdle /\ StatsIdle /\ CellsIdle
    /\ data1 \in FirstFiles
    /\ data2 \in SecondFiles
    /\ merge_pc = "start"
    /\ combined = <<>>
    /\ merge_warnings = {}
    /\ issues = {}
    /\ ok_cells = {}
    /\ output_file = NoFile

\* both files loaded; combined = data1 + data2; "Verifying data structure..."
Merge_Combine ==
    /\ merge_pc = "start"
    /\ LET c == combine(data1, data2)
       IN  /\ combined' = c
           /\ merge_warnings' = {j - 1 : j \in {k \in DOMAIN c : missing(c[k]) # {}}}
    /\ merge_pc' = "breakdown"
    /\ UNCHANGED <<data1, data2, issues, ok_cells, output_file>>

\* "Final breakdown:" and "Sample size check:"
Merge_Breakdown ==
    /\ merge_pc = "breakdown"
    /\ IF keyed(combined)
       THEN /\ issues' = {key \in cells_of(combined) : deviates(cell_count(combined, key))}
            /\ ok_cells' = {key \in cells_of(combined) : ~deviates(cell_count(combined, key))}
            /\ merge_pc' = "save"
       ELSE /\ merge_pc' = "raised"
            /\ UNCHANGED <<issues, ok_cells>>
    /\ UNCHANGED <<data1, data2, combined, merge_warnings, output_file>>

\* json.dump(combined, f)
Merge_Save ==
    /\ merge_pc = "save"
    /\ output_file' = [written |-> TRUE, records |-> combined]
    /\ merge_pc' = "done"
    /\ UNCHANGED <<data1, data2, combined, merge_warnings, issues, ok_cells>>

NextMerge ==
    \/ Merge_Combine /\ UNCHANGED <<mmVars, runVars, adapterVars, mainVars, verifyVars, analyzeVars, statsVars, cellVars>>
    \/ Merge_Breakdown /\ UNCHANGED <<mmVars, runVars, adapterVars, mainVars, verifyVars, analyzeVars, statsVars, cellVars>>
    \/ Merge_Save /\ UNCHANGED <<mmVars, runVars, adapterVars, mainVars, verifyVars, analyzeVars, statsVars, cellVars>>

SpecMerge == InitMerge /\ [][NextMerge]_vars

\* C19: whatever the merge writes is the records of the first file followed
\* by the records of the second, each unchanged and in its original order, so
\* its length is the sum of the two lengths; and a merge of two files whose
\* records all carry model and condition does write it.
C19_MergeWritesConcatenation ==
    /\ output_file.written =>
        /\ Len(output_file.records) = Len(data1) + Len(data2)
        /\ \A j \in DOMAIN data1 : output_file.records[j] = data1[j]
        /\ \A j \in DOMAIN data2 : output_file.records[Len(data1) + j] = data2[j]
    /\ merge_pc = "done" => output_file.written
    /\ (keyed(data1) /\ keyed(data2)) => merge_pc # "raised"

C19_Witness ==
    /\ merge_pc = "done"
    /\ output_file.written
    /\ Len(data1) = 2 * expected
    /\ Len(data2) = expected
    /\ Len(output_file.records) = 3 * expected
    /\ data1[1].model = "claude"
    /\ data1[expected + 1].model = "gemini"
    /\ data2[1].model = "claude"
    /\ output_file.records[2 * expected + 1].prompt = "b1"

\* C20: after a merge, the cells listed as warnings are exactly the (model,
\* condition) cells of the combined array whose record count is not 20, and
\* every other cell is listed as correct.
C20_FlaggedCellsAreTheDeviatingOnes ==
    merge_pc = "done" =>
        /\ issues = {key \in cells_of(output_file.records) :
                        cell_count(output_file.records, key) # 20}
        /\ ok_cells = {key \in cells_of(output_file.records) :
                        cell_count(output_file.records, key) = 20}

C20_Witness ==
    /\ merge_pc = "done"
    /\ issues = {<<"gemini", "full_meta">>}
    /\ ok_cells = {<<"claude", "baseline">>}
    /\ cell_count(data1, <<"claude", "baseline">>) = 20
    /\ cell_count(data1, <<"gemini", "full_meta">>) = 20
    /\ cell_count(data2, <<"gemini", "full_meta">>) = 10
    /\ cell_count(output_file.records, <<"gemini", "full_meta">>) = 30

\* ================================= PilotAnalyzer and the cross-architecture analysis

MaxPhrases == 2

\* a text is the sequence of its characters
Upper == <<"A", "B", "C", "D", "E", "F", "G", "H", "I", "J", "K", "L", "M",
           "N", "O", "P", "Q", "R", "S", "T", "U", "V", "W", "X", "Y", "Z">>

Lower == <<"a", "b", "c", "d", "e", "f", "g", "h", "i", "j", "k", "l", "m",
           "n", "o", "p", "q", "r", "s", "t", "u", "v", "w", "x", "y", "z">>

\* re.IGNORECASE: letters compare by their lower-case form
lower(c) ==
    IF \E k \in DOMAIN Upper : Upper[k] = c
    THEN Lower[CHOOSE k \in DOMAIN Upper : Upper[k] = c]
    ELSE c

\* the characters `\w` matches
WordChars == Range(Upper) \cup Range(Lower) \cup Range(Digit) \cup {"_"}

\* the characters str.split() splits on
Whitespace == {" ", "\t", "\n"}

is_word(text, pos) == pos \in DOMAIN text /\ text[pos] \in WordChars

\* `\b` between position pos - 1 and position pos
boundary(text, pos) == is_word(text, pos - 1) # is_word(text, pos)

\* the literal lit stands at position pos, case ignored
literal_at(text, pos, lit) ==
    /\ pos + Len(lit) - 1 <= Len(text)
    /\ \A k \in DOMAIN lit : lower(text[pos + k - 1]) = lower(lit[k])

\* the length of the match of a pattern `\b(alt|alt|...)` or `\b(alt|...)\b`
\* starting at pos (the first alternative that matches wins), 0 if none
match_len(text, pos, pat) ==
    LET hits == {j \in DOMAIN pat.alts :
                    /\ boundary(text, pos)
                    /\ literal_at(text, pos, pat.alts[j])
                    /\ (pat.end_b => boundary(text, pos + Len(pat.alts[j])))}
    IN  IF hits = {} THEN 0
        ELSE Len(pat.alts[CHOOSE j \in hits : \A h \in hits : j <= h])

RECURSIVE findall_from(_, _, _)
\* len(re.findall(pattern, text, re.IGNORECASE)): matches left to right, not overlapping
findall_from(text, pos, pat) ==
    IF pos > Len(text) THEN 0
    ELSE LET n == match_len(text, pos, pat)
         IN  IF n > 0 THEN 1 + findall_from(text, pos + n, pat)
             ELSE findall_from(text, pos + 1, pat)

findall(pat, text) == findall_from(text, 1, pat)
\* count_self_references: pronouns
self_reference_patterns ==
    <<[alts |-> <<<<"I">>, <<"m", "e">>, <<"m", "y">>, <<"m", "i", "n", "e">>, <<"m", "y", "s", "e", "l", "f">>>>, end_b |-> TRUE]>>

\* count_metacognitive_language: patterns
metacognitive_patterns ==
    <<[alts |-> <<<<"I", " ", "n", "o", "t", "i", "c", "e">>>>, end_b |-> TRUE],
      [alts |-> <<<<"I", " ", "f", "i", "n", "d">>>>, end_b |-> TRUE],
      [alts |-> <<<<"I", " ", "t", "h", "i", "n", "k">>>>, end_b |-> TRUE],
      [alts |-> <<<<"I", " ", "f", "e", "e", "l">>>>, end_b |-> TRUE],
      [alts |-> <<<<"I", " ", "w", "o", "n", "d", "e", "r">>>>, end_b |-> TRUE],
      [alts |-> <<<<"I", " ", "r", "e", "a", "l", "i", "z", "e">>>>, end_b |-> TRUE],
      [alts |-> <<<<"I", " ", "o", "b", "s", "e", "r", "v", "e">>>>, end_b |-> TRUE],
      [alts |-> <<<<"I", " ", "s", "e", "n", "s", "e">>>>, end_b |-> TRUE],
      [alts |-> <<<<"I", "'", "m", " ", "d", "r", "a", "w", "n", " ", "t", "o">>>>, end_b |-> TRUE],
      [alts |-> <<<<"I", "'", "m", " ", "c", "u", "r", "i", "o", "u", "s">>>>, end_b |-> TRUE],
      [alts |-> <<<<"I", "'", "m", " ", "f", "a", "s", "c", "i", "n", "a", "t", "e", "d">>>>, end_b |-> TRUE],
      [alts |-> <<<<"I", "t", " ", "s", "t", "r", "i", "k", "e", "s", " ", "m", "e">>>>, end_b |-> TRUE],
      [alts |-> <<<<"W", "h", "a", "t", " ", "s", "t", "r", "i", "k", "e", "s", " ", "m", "e">>>>, end_b |-> TRUE]>>

\* count_temporal_language: patterns
temporal_patterns ==
    <<[alts |-> <<<<"m", "o", "m", "e", "n", "t">>>>, end_b |-> TRUE],
      [alts |-> <<<<"t", "i", "m", "e">>>>, end_b |-> TRUE],
      [alts |-> <<<<"u", "n", "f", "o", "l", "d">>>>, end_b |-> FALSE],
      [alts |-> <<<<"c", "o", "n", "t", "i", "n", "u", "i", "t", "y">>>>, end_b |-> TRUE],
      [alts |-> <<<<"p", "r", "o", "c", "e", "s", "s">>>>, end_b |-> TRUE],
      [alts |-> <<<<"o", "n", "g", "o", "i", "n", "g">>>>, end_b |-> TRUE],
      [alts |-> <<<<"d", "e", "v", "e", "l", "o", "p">>>>, end_b |-> FALSE],
      [alts |-> <<<<"e", "m", "e", "r", "g", "e">>>>, end_b |-> FALSE],
      [alts |-> <<<<"e", "v", "o", "l", "v", "e">>>>, end_b |-> FALSE],
      [alts |-> <<<<"t", "h", "r", "o", "u", "g", "h", " ", "t", "i", "m", "e">>>>, end_b |-> TRUE],
      [alts |-> <<<<"o", "v", "e", "r", " ", "t", "i", "m", "e">>>>, end_b |-> TRUE],
      [alts |-> <<<<"e", "a", "c", "h", " ", "m", "o", "m", "e", "n", "t">>>>, end_b |-> TRUE],
      [alts |-> <<<<"s", "i", "n", "c", "e", " ", "w", "e">>>>, end_b |-> TRUE],
      [alts |-> <<<<"e", "a", "r", "l", "i", "e", "r">>>>, end_b |-> TRUE],
      [alts |-> <<<<"b", "e", "f", "o", "r", "e">>>>, end_b |-> TRUE],
      [alts |-> <<<<"n", "o", "w">>>>, end_b |-> TRUE]>>

\* count_autobiographical_references: patterns
autobiographical_patterns ==
    <<[alts |-> <<<<"s", "i", "n", "c", "e", " ", "w", "e">>>>, end_b |-> TRUE],
      [alts |-> <<<<"w", "h", "e", "n", " ", "w", "e", " ", "t", "a", "l", "k", "e", "d", " ", "a", "b", "o", "u", "t">>>>, end_b |-> TRUE],
      [alts |-> <<<<"w", "h", "e", "n", " ", "w", "e", " ", "d", "i", "s", "c", "u", "s", "s", "e", "d">>>>, end_b |-> TRUE],
      [alts |-> <<<<"e", "a", "r", "l", "i", "e", "r">>>>, end_b |-> TRUE],
      [alts |-> <<<<"b", "e", "f", "o", "r", "e">>>>, end_b |-> TRUE],
      [alts |-> <<<<"o", "u", "r", " ", "c", "o", "n", "v", "e", "r", "s", "a", "t", "i", "o", "n">>>>, end_b |-> TRUE],
      [alts |-> <<<<"o", "u", "r", " ", "e", "x", "c", "h", "a", "n", "g", "e">>>>, end_b |-> TRUE],
      [alts |-> <<<<"w", "e", "'", "v", "e", " ", "b", "e", "e", "n", " ", "t", "a", "l", "k", "i", "n", "g">>>>, end_b |-> TRUE],
      [alts |-> <<<<"i", "n", " ", "o", "u", "r", " ", "c", "o", "n", "v", "e", "r", "s", "a", "t", "i", "o", "n">>>>, end_b |-> TRUE],
      [alts |-> <<<<"f", "r", "o", "m", " ", "o", "u", "r", " ", "d", "i", "s", "c", "u", "s", "s", "i", "o", "n">>>>, end_b |-> TRUE]>>

\* a count that adds one per pattern that occurs, however often
count_patterns_once(text, patterns) ==
    Cardinality({j \in DOMAIN patterns : findall(patterns[j], text) > 0})

RECURSIVE count_patterns(_, _)
\* `for pattern in patterns: count += len(re.findall(pattern, text, re.IGNORECASE))`
count_patterns(text, patterns) ==
    IF patterns = <<>> THEN 0
    ELSE findall(Head(patterns), text) + count_patterns(text, Tail(patterns))

count_self_references(text) == count_patterns(text, self_reference_patterns)

count_metacognitive_language(text) == count_patterns(text, metacognitive_patterns)

count_temporal_language(text) == count_patterns(text, temporal_patterns)

count_autobiographical_references(text) == count_patterns(text, autobiographical_patterns)

\* len(text.split())
count_words(text) ==
    Cardinality({pos \in DOMAIN text :
                    /\ text[pos] \notin Whitespace
                    /\ (pos = 1 \/ text[pos - 1] \in Whitespace)})

\* the counts the extractor takes from a text
text_metrics(text) ==
    [word_count |-> count_words(text),
     self_references |-> count_self_references(text),
     metacognitive |-> count_metacognitive_language(text),
     temporal |-> count_temporal_language(text),
     autobiographical |-> count_autobiographical_references(text)]

\* pieces of response text
Phrases ==
    {<<"I", " ", "t", "h", "i", "n", "k">>,
     <<"b", "e", "f", "o", "r", "e">>,
     <<"S", "I", "N", "C", "E", " ", "W", "E">>,
     <<"n", "o", "w", ",">>,
     <<"b", "e", "f", "o", "r", "e", "h", "a", "n", "d">>,
     <<"E", "a", "r", "l", "i", "e", "r">>}

RECURSIVE join(_)
\* the phrases separated by single spaces
join(ps) ==
    IF ps = <<>> THEN <<>>
    ELSE IF Len(ps) = 1 THEN Head(ps)
    ELSE Head(ps) \o <<" ">> \o join(Tail(ps))

\* response texts of up to MaxPhrases phrases (the empty text among them)
Texts == {join(ps) : ps \in UNION {[1..k -> Phrases] : k \in 0..MaxPhrases}}

\* "I think I notice something now, since we talked before."
ScenarioText ==
    <<"I", " ", "t", "h", "i", "n", "k", " ", "I", " ", "n", "o", "t", "i", "c", "e", " ", "s", "o", "m", "e", "t", "h", "i", "n", "g", " ", "n", "o", "w", ",", " ", "s", "i", "n", "c", "e", " ", "w", "e", " ", "t", "a", "l", "k", "e", "d", " ", "b", "e", "f", "o", "r", "e", ".">>

\* "I'm curious: it keeps unfolding, myself included."
OtherText ==
    <<"I", "'", "m", " ", "c", "u", "r", "i", "o", "u", "s", ":", " ", "i", "t", " ", "k", "e", "e", "p", "s", " ", "u", "n", "f", "o", "l", "d", "i", "n", "g", ",", " ", "m", "y", "s", "e", "l", "f", " ", "i", "n", "c", "l", "u", "d", "e", "d", ".">>

\* every response text that occurs in a file
AllTexts == Texts \cup {ScenarioText, OtherText, <<>>, <<" ", " ">>}

\* text_metrics of each of them, computed once
TextMetrics == [t \in AllTexts |-> text_metrics(t)]

\* an extractor whose word count depends on what the analyzer holds
analyze_response_stateful(self, response) ==
    LET m == TextMetrics[response.response]
    IN  [query_number |-> response.query_number,
         condition |-> response.condition,
         word_count |-> m.word_count + Cardinality(self.data),
         self_references |-> m.self_references,
         metacognitive |-> m.metacognitive,
         temporal |-> m.temporal,
         autobiographical |-> m.autobiographical]

\* PilotAnalyzer.analyze_response
analyze_response(self, response) ==
    LET m == TextMetrics[response.response]
    IN  [query_number |-> response.query_number,
         condition |-> response.condition,
         word_count |-> m.word_count,
         self_references |-> m.self_references,
         metacognitive |-> m.metacognitive,
         temporal |-> m.temporal,
         autobiographical |-> m.autobiographical]

an_record(n, cond, text) ==
    [query_number |-> n, prompt |-> "p" \o str(n), response |-> text,
     condition |-> cond, model |-> "claude", timestamp |-> n]

\* the second record of a file: its condition and its text (two of them wordless)
SecondRecords ==
    {[condition |-> "baseline", text |-> ScenarioText],
     [condition |-> "full_meta", text |-> OtherText],
     [condition |-> "baseline", text |-> <<>>],
     [condition |-> "full_meta", text |-> <<" ", " ">>]}

AnalyzeScripts == {"analyze_pilot", "analyze_cross_architecture"}

NotSeen == [held |-> {}, metrics |-> [query_number |-> 0]]

\* exact fractions for the means
Frac(a, b) == [num |-> a, den |-> b]

frac_add(x, y) == Frac(x.num * y.den + y.num * x.den, x.den * y.den)

frac_eq(x, y) == x.num * y.den = y.num * x.den

RECURSIVE frac_sum(_)
frac_sum(fs) == IF fs = <<>> THEN Frac(0, 1) ELSE frac_add(Head(fs), frac_sum(Tail(fs)))

\* statistics.mean of a non-empty list
mean(fs) == LET s == frac_sum(fs) IN Frac(s.num, s.den * Len(fs))

RECURSIVE ascending(_)
\* the members of a set of indices in list order
ascending(S) ==
    IF S = {} THEN <<>>
    ELSE LET m == CHOOSE x \in S : \A y \in S : x <= y
         IN  <<m>> \o ascending(S \ {m})

\* `[m[field] / m['word_count'] * 100 for m in metrics]`, then the mean
rate_mean(metrics, field) ==
    mean([j \in DOMAIN metrics |-> Frac(100 * metrics[j][field], metrics[j].word_count)])

\* the summary dict of analyze_condition / analyze_all for one list of responses,
\* or the exception its evaluation raises
summarise(metrics, over) ==
    IF metrics = <<>>
    THEN [kind |-> "StatisticsError", over |-> over]
    ELSE IF \E j \in DOMAIN metrics : metrics[j].word_count = 0
    THEN [kind |-> "ZeroDivisionError", over |-> over]
    ELSE [kind |-> "ok", over |-> over,
          n |-> Len(metrics),
          word_count_mean |-> mean([j \in DOMAIN metrics |-> Frac(metrics[j].word_count, 1)]),
          self_ref_rate |-> rate_mean(metrics, "self_references"),
          metacog_rate |-> rate_mean(metrics, "metacognitive"),
          temporal_rate |-> rate_mean(metrics, "temporal"),
          autobio_rate |-> rate_mean(metrics, "autobiographical")]

\* the lists aggregated: self.baseline / self.full_meta, or one (model, condition) cell
group_of(records, cond) == {j \in DOMAIN records : records[j].condition = cond}

InitAnalyze ==
    /\ MemoryIdle /\ RunIdle /\ AdapterIdle /\ MainIdle /\ VerifyIdle /\ MergeIdle
    /\ StatsIdle /\ CellsIdle
    /\ an_script \in AnalyzeScripts
    /\ an_data \in {<<an_record(1, "baseline", t), an_record(2, r.condition, r.text)>> :
                        t \in Texts, r \in SecondRecords}
    /\ an_self_data = {1, 2}
    /\ an_seen = <<NotSeen, NotSeen>>
    /\ an_last = [index |-> 0]
    /\ an_pc = "loaded"
    /\ an_summary = [n |-> 0]

\* analyzer.analyze_response(an_data[j])
Analyze_Response(j) ==
    /\ an_pc = "loaded"
    /\ LET m == analyze_response([data |-> an_self_data], an_data[j])
       IN  /\ an_last' = [index |-> j, metrics |-> m]
           /\ an_seen' = IF an_seen[j] = NotSeen
                         THEN [an_seen EXCEPT ![j] = [held |-> an_self_data, metrics |-> m]]
                         ELSE an_seen
    /\ UNCHANGED <<an_script, an_data, an_self_data, an_pc, an_summary>>

\* `self.analyzer.data = responses` of analyze_all: the analyzer now holds one cell
Analyze_SetData(cond) ==
    /\ an_pc = "loaded"
    /\ an_script = "analyze_cross_architecture"
    /\ group_of(an_data, cond) # {}
    /\ an_self_data' = group_of(an_data, cond)
    /\ UNCHANGED <<an_script, an_data, an_seen, an_last, an_pc, an_summary>>

\* analyze_condition(responses) / one pass of the loop of analyze_all
Analyze_Aggregate(cond) ==
    /\ an_pc = "loaded"
    /\ LET group == group_of(an_data, cond)
           self == [data |-> IF an_script = "analyze_cross_architecture"
                             THEN group ELSE an_self_data]
           idx == ascending(group)
           metrics == [k \in DOMAIN idx |-> analyze_response(self, an_data[idx[k]])]
           s == summarise(metrics, group)
       IN  /\ an_script = "analyze_cross_architecture" => group # {}
           /\ an_self_data' = self.data
           /\ an_seen' = [j \in DOMAIN an_seen |->
                            IF j \in group /\ an_seen[j] = NotSeen
                            THEN [held |-> self.data,
                                  metrics |-> analyze_response(self, an_data[j])]
                            ELSE an_seen[j]]
           /\ an_last' = IF group = {} THEN an_last
                         ELSE [index |-> idx[Len(idx)], metrics |-> metrics[Len(idx)]]
           /\ an_summary' = s
           /\ an_pc' = IF s.kind = "ok" THEN "aggregated" ELSE "raised"
    /\ UNCHANGED <<an_script, an_data>>

NextAnalyze ==
    \/ \E j \in DOMAIN an_data : Analyze_Response(j)
          /\ UNCHANGED <<mmVars, runVars, adapterVars, mainVars, verifyVars, mergeVars,
                         statsVars, cellVars>>
    \/ \E cond \in {"baseline", "full_meta"} : Analyze_SetData(cond)
          /\ UNCHANGED <<mmVars, runVars, adapterVars, mainVars, verifyVars, mergeVars,
                         statsVars, cellVars>>
    \/ \E cond \in {"baseline", "full_meta"} : Analyze_Aggregate(cond)
          /\ UNCHANGED <<mmVars, runVars, adapterVars, mainVars, verifyVars, mergeVars,
                         statsVars, cellVars>>

SpecAnalyze == InitAnalyze /\ [][NextAnalyze]_vars

\* the metrics of the records of a group that have at least one word
worded(group) ==
    LET idx == ascending({j \in group : an_seen[j].metrics.word_count > 0})
    IN  [k \in DOMAIN idx |-> an_seen[idx[k]].metrics]

\* C21: an aggregation over a list that holds a record with a zero-word
\* response completes without a division fault, and each rate mean is the
\* mean over the records that have words (the wordless record counts neither
\* as 0 nor as infinity).
C21_ZeroWordRecordsExcludedFromRates ==
    (/\ an_pc \in {"aggregated", "raised"}
     /\ \E j \in an_summary.over : an_seen[j].metrics.word_count = 0) =>
        /\ an_summary.kind = "ok"
        /\ worded(an_summary.over) # <<>> =>
            /\ frac_eq(an_summary.self_ref_rate,
                       rate_mean(worded(an_summary.over), "self_references"))
            /\ frac_eq(an_summary.metacog_rate,
                       rate_mean(worded(an_summary.over), "metacognitive"))
            /\ frac_eq(an_summary.temporal_rate,
                       rate_mean(worded(an_summary.over), "temporal"))
            /\ frac_eq(an_summary.autobio_rate,
                       rate_mean(worded(an_summary.over), "autobiographical"))

\* the places where a literal stands in a text as a match of `\blit\b`
\* (whole) or `\blit` (not whole)
Occurrences(text, lit, whole) ==
    Cardinality({pos \in DOMAIN text :
                    /\ boundary(text, pos)
                    /\ literal_at(text, pos, lit)
                    /\ (whole => boundary(text, pos + Len(lit)))})

RECURSIVE SumOccurrences(_, _)
\* the occurrences of every alternative of every pattern of a list, added up
SumOccurrences(text, patterns) ==
    IF patterns = <<>> THEN 0
    ELSE LET pat == Head(patterns)
             per == [j \in DOMAIN pat.alts |-> Frac(Occurrences(text, pat.alts[j], pat.end_b), 1)]
         IN  frac_sum(per).num + SumOccurrences(text, Tail(patterns))

\* the occurrences of the three literals both the temporal and the
\* autobiographical list hold
SharedOccurrences(text) ==
    Occurrences(text, <<"b", "e", "f", "o", "r", "e">>, TRUE) + Occurrences(text, <<"e", "a", "r", "l", "i", "e", "r">>, TRUE)
        + Occurrences(text, <<"s", "i", "n", "c", "e", " ", "w", "e">>, TRUE)

\* the pattern-by-pattern occurrence sums of each text, computed once
TextOccurrences ==
    [t \in AllTexts |->
        [self_references  |-> SumOccurrences(t, self_reference_patterns),
         metacognitive    |-> SumOccurrences(t, metacognitive_patterns),
         temporal         |-> SumOccurrences(t, temporal_patterns),
         autobiographical |-> SumOccurrences(t, autobiographical_patterns),
         shared           |-> SharedOccurrences(t)]]

\* C24: for every analysed response, each category count is the sum over the
\* category's patterns of the case-insensitive occurrences of the pattern,
\* the categories are counted independently (every "before", "earlier" and
\* "since we" counts under temporal and under autobiographical), and the
\* response "I think I notice something now, since we talked before." has
\* self-reference 2, metacognitive 2, temporal >= 2 and autobiographical >= 2.
C24_CategoryCountsSumPatternMatches ==
    \A j \in DOMAIN an_seen :
        an_seen[j] # NotSeen =>
            LET text == an_data[j].response
                m == an_seen[j].metrics
                occ == TextOccurrences[text]
            IN  /\ m.self_references = occ.self_references
                /\ m.metacognitive = occ.metacognitive
                /\ m.temporal = occ.temporal
                /\ m.autobiographical = occ.autobiographical
                /\ m.temporal >= occ.shared
                /\ m.autobiographical >= occ.shared
                /\ text = ScenarioText =>
                    /\ m.self_references = 2
                    /\ m.metacognitive = 2
                    /\ m.temporal >= 2
                    /\ m.autobiographical >= 2

C24_Witness ==
    /\ an_seen[1] # NotSeen
    /\ an_seen[2] # NotSeen
    /\ an_data[2].response = ScenarioText
    /\ an_seen[2].metrics.temporal = 3
    /\ an_seen[2].metrics.autobiographical = 2
    /\ an_data[1].response = join(<<<<"S", "I", "N", "C", "E", " ", "W", "E">>, <<"b", "e", "f", "o", "r", "e">>>>)
    /\ an_seen[1].metrics.temporal = 2
    /\ an_seen[1].metrics.autobiographical = 2
    /\ an_seen[1].metrics.self_references = 0

MaxSample == 3

SampleValues == {0, 1, 2}

\* the lists a caller may pass, the empty one and one-element ones among them
Samples == UNION {[1..k -> SampleValues] : k \in 0..MaxSample}

\* the two definitions of cohens_d: with the guards, and without
StatsImpls == {"statistical_cross_arch", "statistical_tests"}

\* floating-point results: a number (an exact fraction), a quotient of a
\* fraction by the square root of a fraction, an infinity, or not-a-number
NaN == [kind |-> "nan"]

Num(q) == [kind |-> "num", q |-> q]

RECURSIVE total(_)
total(g) == IF g = <<>> THEN 0 ELSE Head(g) + total(Tail(g))

\* n * sum of squares - (sum)^2: n * (n - 1) times the sample variance
spread(g) == Len(g) * total([k \in DOMAIN g |-> g[k] * g[k]]) - total(g) * total(g)

\* np.var(g, ddof=1): not-a-number below two elements
np_var(g) ==
    IF Len(g) < 2 THEN NaN ELSE Num(Frac(spread(g), Len(g) * (Len(g) - 1)))

\* np.mean(g): not-a-number for the empty list
np_mean(g) == IF Len(g) = 0 THEN NaN ELSE Num(Frac(total(g), Len(g)))

\* ((n1 - 1) * var1 + (n2 - 1) * var2) / (n1 + n2 - 2)
pooled_variance(g1, g2) ==
    LET n1 == Len(g1)
        n2 == Len(g2)
        var1 == np_var(g1)
        var2 == np_var(g2)
    IN  IF var1 = NaN \/ var2 = NaN THEN NaN
        ELSE Num(Frac((n1 - 1) * var1.q.num * var2.q.den + (n2 - 1) * var2.q.num * var1.q.den,
                      var1.q.den * var2.q.den * (n1 + n2 - 2)))

\* a difference taken without its sign
mean_difference_abs(g1, g2) ==
    LET m1 == np_mean(g1)
        m2 == np_mean(g2)
        d == m1.q.num * m2.q.den - m2.q.num * m1.q.den
    IN  IF m1 = NaN \/ m2 = NaN THEN NaN
        ELSE Num(Frac(IF d < 0 THEN 0 - d ELSE d, m1.q.den * m2.q.den))

\* np.mean(group1) - np.mean(group2)
mean_difference(g1, g2) ==
    LET m1 == np_mean(g1)
        m2 == np_mean(g2)
    IN  IF m1 = NaN \/ m2 = NaN THEN NaN
        ELSE Num(Frac(m1.q.num * m2.q.den - m2.q.num * m1.q.den, m1.q.den * m2.q.den))

\* x / np.sqrt(v) in floating point: dividing by zero gives an infinity, or
\* not-a-number for 0 / 0, and not-a-number spreads
over_sqrt(x, v) ==
    IF x = NaN \/ v = NaN THEN NaN
    ELSE IF v.q.num = 0
         THEN IF x.q.num = 0 THEN NaN
              ELSE [kind |-> "inf", sign |-> IF x.q.num > 0 THEN 1 ELSE -1]
         ELSE [kind |-> "quot", diff |-> x.q, rad |-> v.q]

\* cohens_d of statistical_cross_arch.py (guards) and of statistical_tests.py (none)
cohens_d(impl, g1, g2) ==
    LET pooled == pooled_variance(g1, g2)
    IN  IF impl = "statistical_cross_arch"
        THEN IF Len(g1) < 2 \/ Len(g2) < 2 THEN Num(Frac(0, 1))
             ELSE IF pooled.q.num = 0 THEN Num(Frac(0, 1))
             ELSE over_sqrt(mean_difference(g1, g2), pooled)
        ELSE over_sqrt(mean_difference(g1, g2), pooled)

InitStats ==
    /\ MemoryIdle /\ RunIdle /\ AdapterIdle /\ MainIdle /\ VerifyIdle /\ MergeIdle
    /\ AnalyzeIdle /\ CellsIdle
    /\ st_impl \in StatsImpls
    /\ group1 \in Samples
    /\ group2 \in Samples
    /\ st_pc = "start"
    /\ d12 = [kind |-> "none"]
    /\ d21 = [kind |-> "none"]

\* d = cohens_d(group1, group2)
Stats_Forward ==
    /\ st_pc \in {"start", "half"}
    /\ d12.kind = "none"
    /\ d12' = cohens_d(st_impl, group1, group2)
    /\ st_pc' = IF d21.kind = "none" THEN "half" ELSE "done"
    /\ UNCHANGED <<st_impl, group1, group2, d21>>

\* d = cohens_d(group2, group1)
Stats_Backward ==
    /\ st_pc \in {"start", "half"}
    /\ d21.kind = "none"
    /\ d21' = cohens_d(st_impl, group2, group1)
    /\ st_pc' = IF d12.kind = "none" THEN "half" ELSE "done"
    /\ UNCHANGED <<st_impl, group1, group2, d12>>

NextStats ==
    \/ Stats_Forward
          /\ UNCHANGED <<mmVars, runVars, adapterVars, mainVars, verifyVars, mergeVars,
                         analyzeVars, cellVars>>
    \/ Stats_Backward
          /\ UNCHANGED <<mmVars, runVars, adapterVars, mainVars, verifyVars, mergeVars,
                         analyzeVars, cellVars>>

SpecStats == InitStats /\ [][NextStats]_vars

\* the pooled standard deviation of the two samples is 0
PooledZero(g1, g2) == spread(g1) = 0 /\ spread(g2) = 0

\* C22: whenever either group has fewer than 2 samples or the pooled standard
\* deviation is 0, cohens_d returns the number 0: not an infinity, not
\* not-a-number.
C22_DegenerateGroupsGiveZero ==
    (/\ d12.kind # "none"
     /\ (Len(group1) < 2 \/ Len(group2) < 2 \/ PooledZero(group1, group2))) =>
        /\ d12.kind = "num"
        /\ d12.q.num = 0

\* the value of a result with its sign turned
Negated(d) ==
    CASE d.kind = "quot" -> [d EXCEPT !.diff.num = 0 - @]
      [] d.kind = "num"  -> [d EXCEPT !.q.num = 0 - @]
      [] d.kind = "inf"  -> [d EXCEPT !.sign = 0 - @]
      [] OTHER -> d

Sign(n) == IF n > 0 THEN 1 ELSE IF n < 0 THEN -1 ELSE 0

\* two quotients a / sqrt(v) with the same a and the same v
SameQuotient(x, y) ==
    /\ x.kind = "quot" /\ y.kind = "quot"
    /\ Sign(x.diff.num) = Sign(y.diff.num)
    /\ frac_eq(x.diff, y.diff)
    /\ frac_eq(x.rad, y.rad)

\* C23: for two samples of at least 2 elements each with nonzero pooled
\* variance, cohens_d(A, B) is the negation of cohens_d(B, A).
C23_CohensDAntisymmetric ==
    (/\ st_pc = "done"
     /\ Len(group1) >= 2 /\ Len(group2) >= 2
     /\ ~PooledZero(group1, group2)) =>
        SameQuotient(d12, Negated(d21))

C23_Witness ==
    /\ st_pc = "done"
    /\ st_impl = "statistical_tests"
    /\ group1 = <<0, 1>>
    /\ group2 = <<1, 2, 2>>
    /\ d12.kind = "quot" /\ d12.diff.num < 0
    /\ d21.kind = "quot" /\ d21.diff.num > 0

\* ------------------------------------------------- the standard conditions

FlagNames == {"memory_persistence", "temporal_markers", "metacognitive_prompting",
              "self_framing"}

\* the flags a condition has switched on
ActiveFlags(c) == {f \in FlagNames : c[f]}

\* C26: the four standard conditions have pairwise distinct names, and in
\* registry order their active-flag sets grow strictly: baseline has none,
\* memory_only adds memory_persistence only, full_basic adds temporal_markers
\* and self_framing, full_meta adds metacognitive_prompting; no condition
\* drops a flag an earlier one has. The scaled pilot runs them in that order.
C26_StandardConditionsFormAChain ==
    /\ Len(STANDARD_CONDITIONS) = 4
    /\ \A j, k \in DOMAIN STANDARD_CONDITIONS :
        j # k => STANDARD_CONDITIONS[j].name # STANDARD_CONDITIONS[k].name
    /\ [k \in DOMAIN STANDARD_CONDITIONS |-> STANDARD_CONDITIONS[k].name]
         = <<"baseline", "memory_only", "full_basic", "full_meta">>
    /\ \A j, k \in DOMAIN STANDARD_CONDITIONS :
        j < k => /\ ActiveFlags(STANDARD_CONDITIONS[j]) \subseteq ActiveFlags(STANDARD_CONDITIONS[k])
                 /\ ActiveFlags(STANDARD_CONDITIONS[j]) # ActiveFlags(STANDARD_CONDITIONS[k])
    /\ ActiveFlags(STANDARD_CONDITIONS[1]) = {}
    /\ ActiveFlags(STANDARD_CONDITIONS[2]) = {"memory_persistence"}
    /\ ActiveFlags(STANDARD_CONDITIONS[3]) \ ActiveFlags(STANDARD_CONDITIONS[2])
         = {"temporal_markers", "self_framing"}
    /\ ActiveFlags(STANDARD_CONDITIONS[4]) \ ActiveFlags(STANDARD_CONDITIONS[3])
         = {"metacognitive_prompting"}
    /\ (main_script = "run_scaled_pilot" /\ main_pc = "cells" /\ cell < 4) =>
            cell_at(main_script, models, cell).condition = STANDARD_CONDITIONS[cell + 1]

C26_Witness ==
    /\ main_script = "run_scaled_pilot"
    /\ main_pc = "done"
    /\ saved.written
    /\ Len(saved.records) = 4 * QueriesPerCell
    /\ saved.records[1].condition = "baseline"
    /\ saved.records[QueriesPerCell + 1].condition = "memory_only"
    /\ saved.records[2 * QueriesPerCell + 1].condition = "full_basic"
    /\ saved.records[3 * QueriesPerCell + 1].condition = "full_meta"

\* C29: for a persisting MemoryManager, in every reachable state the number
\* of stored exchanges equals the query counter and the k-th exchange of the
\* history carries query_number k, also after clear() and further
\* add_exchange calls; get_summary_stats reports the two equal counts.
C29_PersistHistoryNumberedByCounter ==
    mm.persist =>
        /\ Len(mm.history) = mm.query_count
        /\ \A k \in DOMAIN mm.history : mm.history[k].query_number = k
        /\ mmLastOp = "get_summary_stats" =>
            /\ mmRet.total_queries = mmRet.stored_exchanges
            /\ mmRet.stored_exchanges = Len(mm.history)

C29_Witness ==
    /\ mm.persist
    /\ mmPreClear = 2
    /\ mm.query_count = 3
    /\ Len(mm.history) = 3
    /\ mm.history[3].query_number = 3
    /\ mmLastOp = "get_summary_stats"
    /\ mmRet.stored_exchanges = 3

\* ===================================== main's loop of run_condition calls

\* the pool handed to every call
CellPool == SubSeq(PromptPool, 1, 3)

\* the conditions of the successive run_condition calls of each main:
\* BASELINE, FULL_META per model (two models here), the four standard
\* conditions, or BASELINE, FULL_META
cell_conditions(scr) ==
    CASE scr = "run_cross_architecture" -> main_conditions(scr) \o main_conditions(scr)
      [] scr = "run_scaled_pilot"       -> main_conditions(scr)
      [] scr = "run_pilot"              -> <<BASELINE, FULL_META>>

InitCells ==
    /\ MemoryIdle
    /\ AdapterIdle /\ MainIdle /\ VerifyIdle /\ MergeIdle
    /\ AnalyzeIdle /\ StatsIdle
    /\ script \in Scripts
    /\ condition = cell_conditions(script)[1]
    /\ prompts = CellPool
    /\ n_queries = Len(CellPool)
    /\ configs = [initial_prompt |-> InitialPrompt, metacognitive_prompts |-> <<"m1", "m2">>]
    /\ pc = "entry"
    /\ exc = "none"
    /\ memory = MemoryManager(FALSE)
    /\ shuffled_prompts = <<>>
    /\ results = <<>>
    /\ i = 0
    /\ successful_queries = 0
    /\ failed_queries = 0
    /\ adapterLog = <<>>
    /\ stdout = <<>>
    /\ cells_run = 0
    /\ previous_memory = MemoryManager(FALSE)

\* the call returned and main's loop calls run_condition for the next
\* condition: a new frame, whose locals are unbound until the body binds
\* them (the manager of the call that ended still exists)
Cells_NextCall ==
    /\ pc = "returned"
    /\ cells_run + 1 < Len(cell_conditions(script))
    /\ cells_run' = cells_run + 1
    /\ previous_memory' = memory
    /\ condition' = cell_conditions(script)[cells_run + 2]
    /\ pc' = "entry"
    /\ shuffled_prompts' = <<>>
    /\ results' = <<>>
    /\ i' = 0
    /\ successful_queries' = 0
    /\ failed_queries' = 0
    /\ adapterLog' = <<>>
    /\ stdout' = <<>>
    /\ UNCHANGED <<script, prompts, n_queries, configs, exc, memory>>

NextCells ==
    \/ RunCondition_Start
          /\ UNCHANGED <<mmVars, adapterVars, mainVars, verifyVars, mergeVars,
                         analyzeVars, statsVars, cellVars>>
    \/ RunCondition_FramingOk
          /\ UNCHANGED <<mmVars, adapterVars, mainVars, verifyVars, mergeVars,
                         analyzeVars, statsVars, cellVars>>
    \/ RunCondition_FramingFail
          /\ UNCHANGED <<mmVars, adapterVars, mainVars, verifyVars, mergeVars,
                         analyzeVars, statsVars, cellVars>>
    \/ RunCondition_QueryOk
          /\ UNCHANGED <<mmVars, adapterVars, mainVars, verifyVars, mergeVars,
                         analyzeVars, statsVars, cellVars>>
    \/ RunCondition_QueryFail
          /\ UNCHANGED <<mmVars, adapterVars, mainVars, verifyVars, mergeVars,
                         analyzeVars, statsVars, cellVars>>
    \/ RunCondition_Return
          /\ UNCHANGED <<mmVars, adapterVars, mainVars, verifyVars, mergeVars,
                         analyzeVars, statsVars, cellVars>>
    \/ Cells_NextCall
          /\ UNCHANGED <<mmVars, adapterVars, mainVars, verifyVars, mergeVars,
                         analyzeVars, statsVars>>

SpecCells == InitCells /\ [][NextCells]_vars

\* C27: every run of a cell starts with a fresh, empty Memory Manager of the
\* cell's own persistence, whatever the previous cell left, so the first
\* adapter call of the cell carries no exchange, and every exchange a later
\* call carries was stored by this cell.
C27_CellsStartWithFreshMemory ==
    /\ (pc \in {"framing", "loop"} /\ adapterLog = <<>>) =>
            memory = MemoryManager(condition.memory_persistence)
    /\ adapterLog # <<>> =>
            \/ adapterLog[1].context.none
            \/ adapterLog[1].context.exchanges = <<>>
    /\ \A k \in DOMAIN adapterLog :
        Len(adapterLog[k].context.exchanges)
            <= Cardinality({j \in 1..(k - 1) : adapterLog[j].ok})

C27_Witness ==
    /\ script = "run_scaled_pilot"
    /\ cells_run = 2
    /\ condition = FULL_BASIC
    /\ Len(previous_memory.history) = Len(CellPool)
    /\ Len(adapterLog) = 2
    /\ adapterLog[1].kind = "framing"
    /\ adapterLog[1].context.exchanges = <<>>
    /\ Len(adapterLog[2].context.exchanges) = 1

\* C28: run_condition never changes the caller's prompt pool: the shuffled
\* order is a permutation held in the run's own list, and the pool each
\* later cell receives is the one loaded at the start, in the same order.
C28_ShuffleLeavesCallerPoolUnchanged ==
    /\ [](/\ prompts = CellPool
          /\ shuffled_prompts # <<>> =>
                /\ Len(shuffled_prompts) = Len(prompts)
                /\ Range(shuffled_prompts) = Range(prompts))
    /\ [][prompts' = prompts]_vars

C28_Witness ==
    /\ script = "run_cross_architecture"
    /\ cells_run = 1
    /\ pc = "returned"
    /\ shuffled_prompts = <<"p3", "p1", "p2">>
    /\ prompts = <<"p1", "p2", "p3">>

\* ================================ the cross-architecture loop over cells

IsPrefix(s, t) == Len(s) <= Len(t) /\ SubSeq(t, 1, Len(s)) = s

\* the records of all_results that carry the (model, condition) of cell k
records_of_cell(k) ==
    LET c == cell_at(main_script, models, k)
    IN  SelectSeq(all_results,
                  LAMBDA r : r.model = c.model /\ r.condition = c.condition.name)

====
